---- MODULE Spec2Model ----
(***************************************************************************)
(* Verification model of the deterministic transformation substrate of    *)
(* the ase repository: the dependency graph (core/graph.py), the fuzzy    *)
(* file resolver (core/planner/utils.py), the three-tier patch engine     *)
(* (core/patcher.py), the format-preserving removal engine                *)
(* (core/cst_patcher.py), the syntax-tree helpers (core/ast_patcher.py),  *)
(* the worker pipeline with its strategies (core/worker) and the commit   *)
(* of the staging area with its backups (core/safety.py).                 *)
(*                                                                         *)
(* Text is modelled as a sequence of one-character strings, so that       *)
(* split, join, replace, find and slicing are computed as the code        *)
(* computes them.                                                          *)
(***************************************************************************)
EXTENDS Integers, Sequences, FiniteSets, TLC

VARIABLES
    \* ---- dependency graph (core/graph.py) ----
    db,               \* the Source Index: files rows, imports rows, fault
    graph_nodes,      \* DependencyGraph.graph nodes
    graph_edges,      \* DependencyGraph.graph edges, <<importer, target>>
    is_built,         \* DependencyGraph.is_built
    module_to_path,   \* DependencyGraph._module_to_path
    g_last,           \* the last graph operation and what it returned
    \* ---- fuzzy file resolver (core/planner/utils.py) ----
    r_rows,           \* the paths of the files table, in row order
    r_fragment,       \* the path fragment handed to resolve()
    r_result,         \* what resolve() returned, and its best match
    \* ---- three-tier patch engine (core/patcher.py) ----
    p_code,           \* original_code
    p_patch,          \* patch_text, as its blocks and code fences
    p_out,            \* what apply_patches_robust returned or raised
    \* ---- format-preserving removal (core/cst_patcher.py) ----
    c_source,         \* source_code, as its concrete syntax tree
    c_names,          \* names
    c_out,            \* what remove_definitions_cst returned
    \* ---- generator call with retry (core/worker/__init__.py) ----
    l_req,            \* user_prompt, original_code, validate_syntax
    l_out,            \* what _call_llm_with_retry returned or raised
    \* ---- extract-and-modify response (core/worker/strategies.py) ----
    x_raw,            \* raw_response
    x_out,            \* what _extract_and_modify returned or raised
    \* ---- worker pipeline (core/worker/__init__.py) ----
    w_plan,           \* changes, the steps of the plan
    w_disk,           \* the files of the project root
    w_stage,          \* the files of the staging area
    w_working,        \* the working cache of create_diff_draft
    w_history,        \* Worker.task_history
    w_map,            \* Worker.extraction_map
    w_stats,          \* stats: drafted, failed, details
    w_last,           \* the last step and how it was carried out
    w_phase,          \* "run" while steps are processed, then "written"
    \* ---- syntax-tree helpers (core/ast_patcher.py) ----
    a_source,         \* source / source_code
    a_out,            \* the helper called, its arguments and what it returned
    \* ---- commit of the staging area (Worker.commit_changes) ----
    k_root,           \* the files of the project root
    k_stage,          \* the files of the staging area still to be moved
    k_backups,        \* the files of .ase/backups, by file name
    k_clock,          \* the wall clock, in seconds
    k_log             \* the commit: its phase and what it started from

gvars == <<db, graph_nodes, graph_edges, is_built, module_to_path, g_last>>
rvars == <<r_rows, r_fragment, r_result>>
pvars == <<p_code, p_patch, p_out>>
cvars == <<c_source, c_names, c_out>>
lvars == <<l_req, l_out>>
xvars == <<x_raw, x_out>>
wvars == <<w_plan, w_disk, w_stage, w_working, w_history, w_map, w_stats, w_last, w_phase>>

avars == <<a_source, a_out>>
kvars == <<k_root, k_stage, k_backups, k_clock, k_log>>

vars == <<gvars, rvars, pvars, cvars, lvars, xvars, wvars, avars, kvars>>

\* everything but one component's variables
notGraph == <<rvars, pvars, cvars, lvars, xvars, wvars, avars, kvars>>
notResolver == <<gvars, pvars, cvars, lvars, xvars, wvars, avars, kvars>>
notPatcher == <<gvars, rvars, cvars, lvars, xvars, wvars, avars, kvars>>
notCst == <<gvars, rvars, pvars, lvars, xvars, wvars, avars, kvars>>
notRetry == <<gvars, rvars, pvars, cvars, xvars, wvars, avars, kvars>>
notExtract == <<gvars, rvars, pvars, cvars, lvars, wvars, avars, kvars>>
notWorker == <<gvars, rvars, pvars, cvars, lvars, xvars, avars, kvars>>
notAst == <<gvars, rvars, pvars, cvars, lvars, xvars, wvars, kvars>>
notCommit == <<gvars, rvars, pvars, cvars, lvars, xvars, wvars, avars>>

(***************************************************************************)
(* Text helpers (Python str operations on sequences of characters).       *)
(***************************************************************************)
Min(a, b) == IF a < b THEN a ELSE b
Max(a, b) == IF a > b THEN a ELSE b

\* s[a:b] for 0-based a, b already clamped by the caller to 0..Len(s)
Slice(s, a, b) == SubSeq(s, a + 1, b)

\* s.endswith(suf)
EndsWith(s, suf) ==
    /\ Len(s) >= Len(suf)
    /\ SubSeq(s, Len(s) - Len(suf) + 1, Len(s)) = suf

\* s[:-n]
DropLast(s, n) == SubSeq(s, 1, Len(s) - n)

\* s.replace(from, to) for single characters
ReplaceChar(s, from, to) ==
    [i \in 1..Len(s) |-> IF s[i] = from THEN to ELSE s[i]]

\* s.split(sep) for a single character sep: always at least one part
RECURSIVE SplitFrom(_, _, _, _)
SplitFrom(s, sep, i, cur) ==
    IF i > Len(s) THEN <<cur>>
    ELSE IF s[i] = sep THEN <<cur>> \o SplitFrom(s, sep, i + 1, <<>>)
    ELSE SplitFrom(s, sep, i + 1, Append(cur, s[i]))

Split(s, sep) == SplitFrom(s, sep, 1, <<>>)

\* sep.join(parts)
RECURSIVE Join(_, _)
Join(parts, sep) ==
    IF Len(parts) = 0 THEN <<>>
    ELSE IF Len(parts) = 1 THEN parts[1]
    ELSE parts[1] \o <<sep>> \o Join(Tail(parts), sep)

SeqToSet(s) == {s[i] : i \in 1..Len(s)}

(***************************************************************************)
(* Dependency graph: bounds and input universes.                           *)
(***************************************************************************)
MaxFiles == 2       \* rows of the files table
MaxImports == 1     \* rows of the imports table

P_a_py      == <<"a", ".", "p", "y">>
P_a_init    == <<"a", "/", "_", "_", "i", "n", "i", "t", "_", "_", ".", "p", "y">>
P_a_b_py    == <<"a", "/", "b", ".", "p", "y">>
P_notes     == <<"n", ".", "m", "d">>

GraphPaths == {P_a_py, P_a_init, P_a_b_py, P_notes}

I_a_b_C == <<"a", ".", "b", ".", "C">>
I_a_X   == <<"a", ".", "X">>
I_os    == <<"o", "s">>

\* import strings of the imports table: one that peels back, one unresolved
GraphImports == {I_a_b_C, I_os}

SeqsUpTo(S, n) == UNION {[1..k -> S] : k \in 0..n}

\* sequences without repetition over S, of length at most n
DistinctSeqs(S, n) ==
    {q \in SeqsUpTo(S, n) : \A i, j \in 1..Len(q) : i # j => q[i] # q[j]}

(***************************************************************************)
(* _build_module_map                                                       *)
(***************************************************************************)
EmptyMap == [x \in {} |-> <<>>]

MapPut(m, k, v) == [x \in (DOMAIN m) \cup {k} |-> IF x = k THEN v ELSE m[x]]

DotPy == <<".", "p", "y">>
InitPy == <<"_", "_", "i", "n", "i", "t", "_", "_", ".", "p", "y">>

ModuleName(path_str) ==
    ReplaceChar(ReplaceChar(DropLast(path_str, 3), "/", "."), "\\", ".")

PkgName(path_str) ==
    ReplaceChar(ReplaceChar(DropLast(path_str, 12), "/", "."), "\\", ".")

RECURSIVE BuildModuleMap(_, _)
BuildModuleMap(m, paths) ==
    IF Len(paths) = 0 THEN m
    ELSE LET path_str == Head(paths)
             m1 == IF EndsWith(path_str, DotPy)
                   THEN MapPut(m, ModuleName(path_str), path_str)
                   ELSE m
             m2 == IF EndsWith(path_str, DotPy) /\ EndsWith(path_str, InitPy)
                   THEN MapPut(m1, PkgName(path_str), path_str)
                   ELSE m1
         IN  BuildModuleMap(m2, Tail(paths))

(***************************************************************************)
(* _resolve_import: peel-back, from the full string down to the first     *)
(* segment.  None is modelled as the empty path <<>> (no indexed path is  *)
(* empty: every key of the map comes from a path ending in ".py").        *)
(***************************************************************************)
None == <<>>

RECURSIVE PeelBack(_, _, _)
PeelBack(m, parts, i) ==
    IF i = 0 THEN None
    ELSE LET candidate_module == Join(SubSeq(parts, 1, i), ".")
         IN  IF candidate_module \in DOMAIN m
             THEN m[candidate_module]
             ELSE PeelBack(m, parts, i - 1)

\* a resolution that tries the least specific prefix first
RECURSIVE PeelForward(_, _, _)
PeelForward(m, parts, i) ==
    IF i > Len(parts) THEN None
    ELSE LET candidate_module == Join(SubSeq(parts, 1, i), ".")
         IN  IF candidate_module \in DOMAIN m
             THEN m[candidate_module]
             ELSE PeelForward(m, parts, i + 1)

ResolveImportShortest(m, import_str) ==
    PeelForward(m, Split(import_str, "."), 1)

ResolveImport(m, import_str) ==
    LET parts == Split(import_str, ".")
    IN  PeelBack(m, parts, Len(parts))

(***************************************************************************)
(* The Source Index as build() reads it.                                   *)
(*   files   : rows <<id, path>> in the order the SELECT returns them      *)
(*   imports : rows [source_file_id, module_name]                          *)
(*   fault   : "none"        the index is readable                         *)
(*             "unavailable" connect / SELECT ... FROM files raises        *)
(*             "no_imports"  SELECT ... FROM imports raises                *)
(***************************************************************************)
ImportRows(n) == [source_file_id : 1..(n + 1), module_name : GraphImports]

FileRows(paths) == [i \in 1..Len(paths) |-> [id |-> i, path |-> paths[i]]]

\* Import rows name an existing file or one deleted file (id n + 1).  An
\* unavailable index has no readable content at all.
Indexes ==
    {[files |-> <<>>, imports |-> <<>>, fault |-> "unavailable"]} \cup
    UNION {
        {[files |-> FileRows(ps), imports |-> im, fault |-> f] :
            im \in SeqsUpTo(ImportRows(Len(ps)), MaxImports),
            f \in {"none", "no_imports"}} :
        ps \in DistinctSeqs(GraphPaths, MaxFiles)}

\* id_to_path (graph.py 95-104)
PathOfId(files, i) == files[CHOOSE k \in 1..Len(files) : files[k].id = i].path

HasId(files, i) == \E k \in 1..Len(files) : files[k].id = i

PathsOf(files) == [k \in 1..Len(files) |-> files[k].path]

\* One resolved import (graph.py 125-133 and 173-181): the edge set after it.
AddEdgeUnguarded(edges, importer_path, target_path) ==
    IF target_path # None
    THEN edges \cup {<<importer_path, target_path>>}
    ELSE edges

AddEdge(edges, importer_path, target_path) ==
    IF target_path # None
    THEN IF target_path # importer_path
         THEN edges \cup {<<importer_path, target_path>>}
         ELSE edges
    ELSE edges

\* the loop over the imports rows (graph.py 115-133)
RECURSIVE DbEdges(_, _, _, _)
DbEdges(m, files, rows, edges) ==
    IF Len(rows) = 0 THEN edges
    ELSE LET row == Head(rows)
             source_id == row.source_file_id
             import_str == row.module_name
         IN  IF ~HasId(files, source_id)
             THEN DbEdges(m, files, Tail(rows), edges)
             ELSE DbEdges(m, files, Tail(rows),
                          AddEdge(edges, PathOfId(files, source_id),
                                  ResolveImport(m, import_str)))

\* _build_from_database: the graph it leaves and whether it raised
BuildFromDatabase(d) ==
    IF d.fault = "unavailable"
    THEN [nodes |-> {}, edges |-> {}, map |-> EmptyMap, raised |-> TRUE]
    ELSE LET nodes == SeqToSet(PathsOf(d.files))
             m == BuildModuleMap(EmptyMap, PathsOf(d.files))
         IN  IF d.fault = "no_imports"
             THEN [nodes |-> nodes, edges |-> {}, map |-> m, raised |-> TRUE]
             ELSE [nodes |-> nodes, edges |-> DbEdges(m, d.files, d.imports, {}),
                   map |-> m, raised |-> FALSE]

\* The artifact map {path: [imports]} holding the same files and imports:
\* keys in row order, each value the imports of that file in row order.
ImportsOfId(rows, i) ==
    LET F[k \in 0..Len(rows)] ==
          IF k = 0 THEN <<>>
          ELSE IF rows[k].source_file_id = i
               THEN Append(F[k - 1], rows[k].module_name)
               ELSE F[k - 1]
    IN  F[Len(rows)]

\* art_bad: 0 is a well-formed map, k > 0 a map whose k-th value is not a
\* list (iterating it raises), -1 an object that is no map at all.
ArtifactsOf(d, art_bad) ==
    [k \in 1..Len(d.files) |->
        [path |-> d.files[k].path,
         imports |-> ImportsOfId(d.imports, d.files[k].id),
         iterable |-> (art_bad # k)]]

RECURSIVE ImportEdges(_, _, _, _)
ImportEdges(m, importer_path, imports, edges) ==
    IF Len(imports) = 0 THEN edges
    ELSE ImportEdges(m, importer_path, Tail(imports),
                     AddEdge(edges, importer_path,
                             ResolveImport(m, Head(imports))))

\* the loop over artifacts.items() (graph.py 167-181): stops at the first
\* value that cannot be iterated, keeping the edges added before it
RECURSIVE ArtEdges(_, _, _)
ArtEdges(m, items, edges) ==
    IF Len(items) = 0 THEN [edges |-> edges, raised |-> FALSE]
    ELSE IF ~Head(items).iterable THEN [edges |-> edges, raised |-> TRUE]
    ELSE ArtEdges(m, Tail(items),
                  ImportEdges(m, Head(items).path, Head(items).imports, edges))

\* _build_from_artifacts
BuildFromArtifacts(artifacts, is_map) ==
    IF ~is_map
    THEN [nodes |-> {}, edges |-> {}, map |-> EmptyMap, raised |-> TRUE]
    ELSE LET
             all_paths == [k \in 1..Len(artifacts) |-> artifacts[k].path]
             m == BuildModuleMap(EmptyMap, all_paths)
             r == ArtEdges(m, artifacts, {})
         IN  [nodes |-> SeqToSet(all_paths), edges |-> r.edges,
              map |-> m, raised |-> r.raised]

(***************************************************************************)
(* build(): clears the graph and the module map, builds, and sets         *)
(* is_built; every exception is caught (graph.py 63-82).                   *)
(***************************************************************************)
NoResult == {}

BuildEffect(r, op) ==
    /\ graph_nodes' = r.nodes
    /\ graph_edges' = r.edges
    /\ module_to_path' = r.map
    /\ is_built' = ~r.raised
    /\ g_last' = [op |-> op, failed |-> r.raised, arg |-> None,
                  result |-> NoResult]
    /\ UNCHANGED <<db, notGraph>>

\* build() from the database
Build == BuildEffect(BuildFromDatabase(db), "build_db")

\* build(from_artifacts): the map holds the files and imports of the index
BuildArtifacts ==
    \E art_bad \in -1..Len(db.files) :
        BuildEffect(BuildFromArtifacts(ArtifactsOf(db, art_bad), art_bad # -1),
                    "build_art")

\* The graph a query reads: "if not self.is_built: self.build()".
GraphForQuery ==
    IF is_built
    THEN [nodes |-> graph_nodes, edges |-> graph_edges, map |-> module_to_path,
          raised |-> FALSE]
    ELSE BuildFromDatabase(db)

Predecessors(edges, n) == {e[1] : e \in {x \in edges : x[2] = n}}
Successors(edges, n) == {e[2] : e \in {x \in edges : x[1] = n}}

\* nx.ancestors: every node with a path to n
RECURSIVE AncestorsFrom(_, _)
AncestorsFrom(edges, found) ==
    LET more == found \cup UNION {Predecessors(edges, x) : x \in found}
    IN  IF more = found THEN found ELSE AncestorsFrom(edges, more)

Ancestors(edges, n) == AncestorsFrom(edges, Predecessors(edges, n)) \ {n}

CallersOf(g, file_path) ==
    IF file_path \notin g.nodes THEN {} ELSE Predecessors(g.edges, file_path)

DependenciesOf(g, file_path) ==
    IF file_path \notin g.nodes THEN {} ELSE Successors(g.edges, file_path)

ImpactedFiles(g, file_path) ==
    IF file_path \notin g.nodes THEN {} ELSE Ancestors(g.edges, file_path)

QueryResult(op, g, file_path) ==
    CASE op = "callers" -> CallersOf(g, file_path)
      [] op = "deps"    -> DependenciesOf(g, file_path)
      [] OTHER          -> ImpactedFiles(g, file_path)

\* get_callers_of / get_dependencies_of / get_impacted_files
Query(op) ==
    \E file_path \in GraphPaths :
        LET g == GraphForQuery
        IN  /\ graph_nodes' = g.nodes
            /\ graph_edges' = g.edges
            /\ module_to_path' = g.map
            /\ is_built' = ~g.raised
            /\ g_last' = [op |-> op, failed |-> g.raised, arg |-> file_path,
                          result |-> QueryResult(op, g, file_path)]
            /\ UNCHANGED <<db, notGraph>>

GetCallersOf == Query("callers")
GetDependenciesOf == Query("deps")
GetImpactedFiles == Query("impact")

GraphInit ==
    /\ db \in Indexes
    /\ graph_nodes = {}
    /\ graph_edges = {}
    /\ is_built = FALSE
    /\ module_to_path = EmptyMap
    /\ g_last = [op |-> "init", failed |-> FALSE, arg |-> None, result |-> NoResult]

GraphNext ==
    \/ Build
    \/ BuildArtifacts
    \/ GetCallersOf
    \/ GetDependenciesOf
    \/ GetImpactedFiles

(***************************************************************************)
(* Claims about the dependency graph.                                      *)
(***************************************************************************)
I_a     == <<"a">>
I_a_b   == <<"a", ".", "b">>
I_a_dot == <<"a", ".">>
I_dot_a == <<".", "a">>
I_b     == <<"b">>
I_empty == <<>>
I_a_b_C_D == <<"a", ".", "b", ".", "C", ".", "D">>
I_a_init == <<"a", ".", "_", "_", "i", "n", "i", "t", "_", "_">>

ProbeImports ==
    GraphImports \cup {I_a_X, I_a, I_a_b, I_a_dot, I_dot_a, I_b, I_empty, I_a_b_C_D,
                       I_a_init}

\* the prefixes of s that end at a dot or at the end of s
DotPrefixes(s) ==
    {SubSeq(s, 1, k) : k \in {j \in 0..Len(s) : j = Len(s) \/ s[j + 1] = "."}}

IndexedPrefixes(m, s) == DotPrefixes(s) \cap DOMAIN m

LongestIndexedPrefix(m, s) ==
    CHOOSE p \in IndexedPrefixes(m, s) :
        \A q \in IndexedPrefixes(m, s) : Len(q) <= Len(p)

\* C1: peel-back resolution returns the file of the LONGEST dot-separated
\* prefix of the import string that is present in the module index, and
\* None exactly when no prefix is indexed.
C1_PeelBackLongestPrefix ==
    \A s \in ProbeImports :
        LET r == ResolveImport(module_to_path, s)
        IN  IF IndexedPrefixes(module_to_path, s) = {}
            THEN r = None
            ELSE /\ r # None
                 /\ r = module_to_path[LongestIndexedPrefix(module_to_path, s)]

\* C1 witness: pkg and pkg.mod are both indexed, by different files, and
\* pkg.mod.Class resolves to pkg.mod's file.
C1_Witness ==
    /\ I_a \in DOMAIN module_to_path
    /\ I_a_b \in DOMAIN module_to_path
    /\ module_to_path[I_a] # module_to_path[I_a_b]
    /\ ResolveImport(module_to_path, I_a_b_C) = module_to_path[I_a_b]

\* C2: after any sequence of build() calls the graph has no self-loop.
C2_NoSelfLoop == \A e \in graph_edges : e[1] # e[2]

\* an imports row of the index whose import resolves to the importing file
SelfImportInIndex ==
    \E k \in 1..Len(db.imports) :
        /\ HasId(db.files, db.imports[k].source_file_id)
        /\ ResolveImport(module_to_path, db.imports[k].module_name)
               = PathOfId(db.files, db.imports[k].source_file_id)

\* C2 witness: a build succeeded on an index in which a file imports itself
\* (and another edge was added), from the database and from artifacts.
C2_Witness ==
    /\ g_last.op = "build_db"
    /\ ~g_last.failed
    /\ SelfImportInIndex

C2_WitnessArtifacts ==
    /\ g_last.op = "build_art"
    /\ ~g_last.failed
    /\ SelfImportInIndex

\* C3 (as claimed): when the index or the artifact map is unavailable or
\* malformed, build() leaves the graph EMPTY with is_built = false, and the
\* caller, dependency and impact queries issued afterwards return empty
\* results.
C3_FailedBuildLeavesEmptyGraph ==
    g_last.failed =>
        /\ ~is_built
        /\ graph_nodes = {}
        /\ graph_edges = {}
        /\ g_last.result = {}
        /\ \A op \in {"callers", "deps", "impact"} : \A f \in GraphPaths :
               QueryResult(op, GraphForQuery, f) = {}

(***************************************************************************)
(* Fuzzy file resolver (core/planner/utils.py).                            *)
(* A score is an exact fraction [n, d] (d > 0); 0.8, 0.4, 0.6, 0.3 and     *)
(* 0.95 are tenths and hundredths.                                         *)
(***************************************************************************)
MaxRows == 3        \* rows of the files table seen by the resolver

Frac(n, d) == [n |-> n, d |-> d]
FracLess(x, y) == x.n * y.d < y.n * x.d
FracEq(x, y) == x.n * y.d = y.n * x.d
FracLeq(x, y) == x.n * y.d <= y.n * x.d
FracMul(x, y) == [n |-> x.n * y.n, d |-> x.d * y.d]

SuffixCap == Frac(8, 10)
FilenameCap == Frac(4, 10)
FuzzyCap == Frac(6, 10)
FuzzyMinRatio == Frac(5, 10)
MinConfidence == Frac(3, 10)
NearPerfect == Frac(95, 100)
One == Frac(1, 1)
Zero == Frac(0, 1)

NoMatch == [found |-> FALSE, path |-> <<>>, score |-> Zero, match_type |-> "none"]
FileMatch(path, score, match_type) ==
    [found |-> TRUE, path |-> path, score |-> score, match_type |-> match_type]

\* str.strip() for blanks
RECURSIVE LStrip(_)
LStrip(s) == IF Len(s) > 0 /\ Head(s) = " " THEN LStrip(Tail(s)) ELSE s
RECURSIVE RStrip(_)
RStrip(s) ==
    IF Len(s) > 0 /\ s[Len(s)] = " " THEN RStrip(SubSeq(s, 1, Len(s) - 1)) ELSE s
Strip(s) == RStrip(LStrip(s))

\* "sub in s"
Contains(s, sub) ==
    \E i \in 0..(Len(s) - Len(sub)) : SubSeq(s, i + 1, i + Len(sub)) = sub

\* SQLite's  path LIKE '%' || pat : pat matches a suffix of path, "_" in
\* pat matching any one character and letters matching in either case.
Lower(c) == IF c = "S" THEN "s" ELSE c

LikeSuffix(path, pat) ==
    /\ Len(path) >= Len(pat)
    /\ \A i \in 1..Len(pat) :
          \/ pat[i] = "_"
          \/ Lower(pat[i]) = Lower(path[Len(path) - Len(pat) + i])

\* max(rows, key=...): the FIRST row with the greatest key
\* (keys holds the key of each row, in row order; the result is an index)
ArgMax(keys) ==
    LET B[i \in 1..Len(keys)] ==
          IF i = 1 THEN 1
          ELSE IF FracLess(keys[B[i - 1]], keys[i]) THEN i
               ELSE B[i - 1]
    IN  B[Len(keys)]

\* _path_similarity
PathSimilarity(p1, p2) ==
    LET parts1 == Split(p1, "/")
        parts2 == Split(p2, "/")
        common == Cardinality(SeqToSet(parts1) \cap SeqToSet(parts2))
    IN  Frac(common, Max(Len(parts1), Len(parts2)))

\* a ratio that ignores containment and compares character sets only
CharSetRatio(s1, s2) ==
    IF Len(s1) = 0 \/ Len(s2) = 0 THEN Zero
    ELSE Frac(Cardinality(SeqToSet(s1) \cap SeqToSet(s2)),
              Max(Cardinality(SeqToSet(s1)), Cardinality(SeqToSet(s2))))

\* _levenshtein_ratio
LevenshteinRatio(s1, s2) ==
    IF Len(s1) = 0 \/ Len(s2) = 0 THEN Zero
    ELSE IF Contains(s2, s1) \/ Contains(s1, s2)
    THEN Frac(Max(Len(s1), Len(s2)), Max(Max(Len(s1), Len(s2)), 1))
    ELSE Frac(Cardinality(SeqToSet(s1) \cap SeqToSet(s2)),
              Max(Cardinality(SeqToSet(s1)), Cardinality(SeqToSet(s2))))

\* _exact_match
ExactMatch(rows, path) ==
    LET hit == SelectSeq(rows, LAMBDA r : r = path)
    IN  IF Len(hit) = 0 THEN NoMatch ELSE FileMatch(hit[1], One, "exact")

\* _suffix_match
SuffixMatch(rows, path) ==
    LET hit == SelectSeq(rows, LAMBDA r : LikeSuffix(r, path))
    IN  IF Len(hit) = 0 THEN NoMatch
        ELSE LET best == hit[ArgMax([i \in 1..Len(hit) |->
                                        PathSimilarity(path, hit[i])])]
             IN  FileMatch(best, FracMul(SuffixCap, PathSimilarity(path, best)),
                           "suffix")

\* _filename_match
FilenameMatch(rows, path) ==
    LET parts == Split(path, "/")
        filename == parts[Len(parts)]
        hit == SelectSeq(rows, LAMBDA r : LikeSuffix(r, filename))
        path_parts == SeqToSet(parts)
        Overlap(r) == Cardinality(SeqToSet(Split(r, "/")) \cap path_parts)
    IN  IF Len(hit) = 0 THEN NoMatch
        ELSE LET best == hit[ArgMax([i \in 1..Len(hit) |->
                                        Frac(Overlap(hit[i]), 1)])]
             IN  FileMatch(best,
                           FracMul(FilenameCap,
                                   Frac(Overlap(best), Cardinality(path_parts))),
                           "filename")

\* _fuzzy_match
FuzzyMatch(rows, path) ==
    IF Len(rows) = 0 THEN NoMatch
    ELSE LET best == rows[ArgMax([i \in 1..Len(rows) |->
                                     LevenshteinRatio(path, rows[i])])]
             score == LevenshteinRatio(path, best)
         IN  IF FracLeq(FuzzyMinRatio, score)
             THEN FileMatch(best, FracMul(FuzzyCap, score), "fuzzy")
             ELSE NoMatch

Strategy(k, rows, path) ==
    CASE k = 1 -> ExactMatch(rows, path)
      [] k = 2 -> SuffixMatch(rows, path)
      [] k = 3 -> FilenameMatch(rows, path)
      [] OTHER -> FuzzyMatch(rows, path)

\* the loop over the strategies (utils.py 90-96): best_match
RECURSIVE BestFrom(_, _, _, _)
BestFrom(rows, normalized, k, best_match) ==
    IF k > 4 THEN best_match
    ELSE LET match == Strategy(k, rows, normalized)
         IN  IF match.found /\ (~best_match.found
                                \/ FracLess(best_match.score, match.score))
             THEN IF FracLeq(NearPerfect, match.score)
                  THEN match
                  ELSE BestFrom(rows, normalized, k + 1, match)
             ELSE BestFrom(rows, normalized, k + 1, best_match)

Normalize(path_fragment) == Strip(ReplaceChar(path_fragment, "\\", "/"))

BestMatch(rows, path_fragment) ==
    BestFrom(rows, Normalize(path_fragment), 1, NoMatch)

\* a resolve() that returns its best match whatever its score
ResolveNoThreshold(rows, path_fragment) == BestMatch(rows, path_fragment)

\* FileResolver.resolve
Resolve(rows, path_fragment) ==
    LET best_match == BestMatch(rows, path_fragment)
    IN  IF best_match.found /\ FracLess(best_match.score, MinConfidence)
        THEN NoMatch
        ELSE best_match

(***************************************************************************)
(* Resolver inputs: an index of paths in any row order, and the fragments  *)
(* handed to resolve().                                                     *)
(***************************************************************************)
R_c_s   == <<"c", "/", "s", ".", "p", "y">>
R_c_s_o == <<"c", "/", "s", "_", "o", ".", "p", "y">>
R_c_os  == <<"c", "/", "o", "s", ".", "p", "y">>
R_c_S   == <<"c", "/", "S", ".", "p", "y">>
R_s     == <<"s", ".", "p", "y">>
R_d_e_s == <<"d", "/", "e", "/", "s", ".", "p", "y">>
R_p_sy  == <<"p", "/", "s", ".", "y">>
R_y     == <<"y">>

ResolverPaths == {R_c_s, R_c_s_o, R_c_os, R_c_S, R_s, R_d_e_s, R_p_sy, R_y}

F_s     == <<"s", ".", "p", "y">>
F_c_s   == <<"c", "/", "s", ".", "p", "y">>
F_win   == <<"c", "\\", "s", ".", "p", "y">>
F_pad   == <<" ", "s", ".", "p", "y", " ">>
F_s_o   == <<"s", "_", "o", ".", "p", "y">>
F_sxo   == <<"s", "x", "o", ".", "p", "y">>
F_far   == <<"a", "b", "d", "e", "f", "g", "/", "s", ".", "p", "y">>
F_e_s   == <<"e", "/", "s", ".", "p", "y">>
F_none  == <<"z", "q">>

Fragments == {F_s, F_c_s, F_win, F_pad, F_s_o, F_sxo, F_far, F_e_s, F_none}

ResolverInit ==
    /\ r_rows \in DistinctSeqs(ResolverPaths, MaxRows)
    /\ r_fragment = <<>>
    /\ r_result = [called |-> FALSE, ret |-> NoMatch, best |-> NoMatch]

\* one call of resolve(path_fragment) against the index
ResolveCall ==
    \E path_fragment \in Fragments :
        /\ r_fragment' = path_fragment
        /\ r_result' = [called |-> TRUE,
                        ret |-> Resolve(r_rows, path_fragment),
                        best |-> BestMatch(r_rows, path_fragment)]
        /\ UNCHANGED <<r_rows, notResolver>>

ResolverNext == ResolveCall

(***************************************************************************)
(* Claims about the resolver.                                              *)
(***************************************************************************)
\* C4: resolve never returns a match whose score is below 0.3: the result
\* is None or a FileMatch of an indexed path with 0.3 <= score <= 1.0.
C4_NoLowConfidenceMatch ==
    r_result.called =>
        \/ ~r_result.ret.found
        \/ /\ FracLeq(MinConfidence, r_result.ret.score)
           /\ FracLeq(r_result.ret.score, One)
           /\ r_result.ret.path \in SeqToSet(r_rows)

\* C4 witness: the best match of the strategies scored below 0.3 and
\* resolve returned None.
C4_Witness ==
    /\ r_result.called
    /\ r_result.best.found
    /\ FracLess(r_result.best.score, MinConfidence)
    /\ ~r_result.ret.found

LastSegment(path) == LET parts == Split(path, "/") IN parts[Len(parts)]

IsBareName(f) == Len(f) > 0 /\ "/" \notin SeqToSet(f)

NamedExactly(f) == {p \in SeqToSet(r_rows) : LastSegment(p) = f}

\* indexed paths that merely contain f, or are contained in f
SubstringRelated(f) ==
    {p \in SeqToSet(r_rows) :
        LastSegment(p) # f /\ (Contains(p, f) \/ Contains(f, p))}

RowOrders(rows) ==
    {q \in [1..Len(rows) -> SeqToSet(rows)] : SeqToSet(q) = SeqToSet(rows)}

\* the score a path obtains for the fragment on its own
OwnScore(p, f) == Resolve(<<p>>, f).score

\* C6 (as claimed): when several indexed paths obtain the same best score,
\* resolve returns the shortest of them, so that the result does not depend
\* on the order of the rows.
C6_TiesResolveToShortest ==
    (r_result.called /\ r_result.ret.found) =>
        /\ \A p \in SeqToSet(r_rows) :
              (Resolve(<<p>>, r_fragment).found
                 /\ FracEq(OwnScore(p, r_fragment), r_result.ret.score))
              => Len(r_result.ret.path) <= Len(p)
        /\ \A q \in RowOrders(r_rows) :
              Resolve(q, r_fragment).path = r_result.ret.path

(***************************************************************************)
(* Three-tier patch engine (core/patcher.py).                              *)
(* Text is a sequence of characters; "\n" is the newline, "\t" the tab,    *)
(* and the one token "E" stands for the elision marker <ELLIPSIS>.         *)
(***************************************************************************)
NL == "\n"
TAB == "\t"
ELLIPSIS == "E"

\* s.find(sub, start): the least index (from 0) or -1
Find(s, sub, start) ==
    LET hits == {i \in start..(Len(s) - Len(sub)) :
                    SubSeq(s, i + 1, i + Len(sub)) = sub}
    IN  IF hits = {} THEN -1
        ELSE CHOOSE i \in hits : \A j \in hits : i <= j

\* s.rfind(NL, 0, end): the greatest index below end, or -1
RFindNL(s, end) ==
    LET hits == {i \in 0..(end - 1) : s[i + 1] = NL}
    IN  IF hits = {} THEN -1
        ELSE CHOOSE i \in hits : \A j \in hits : j <= i

\* s.strip(chars) and s.strip()
RECURSIVE LStripOf(_, _)
LStripOf(s, chars) ==
    IF Len(s) > 0 /\ Head(s) \in chars THEN LStripOf(Tail(s), chars) ELSE s
RECURSIVE RStripOf(_, _)
RStripOf(s, chars) ==
    IF Len(s) > 0 /\ s[Len(s)] \in chars
    THEN RStripOf(SubSeq(s, 1, Len(s) - 1), chars)
    ELSE s
StripNL(s) == RStripOf(LStripOf(s, {NL}), {NL})
StripWS(s) == RStripOf(LStripOf(s, {" ", NL, TAB}), {" ", NL, TAB})

\* search_block.replace("<ELLIPSIS>", "")
RemoveMarker(s) == SelectSeq(s, LAMBDA c : c # ELLIPSIS)
HasMarker(s) == ELLIPSIS \in SeqToSet(s)

\* s.splitlines()
SplitLines(s) ==
    LET parts == Split(s, NL)
    IN  IF Len(parts[Len(parts)]) = 0
        THEN SubSeq(parts, 1, Len(parts) - 1)
        ELSE parts

\* "\n".join(lines)
JoinLines(lines) == Join(lines, NL)

\* target_indent (patcher.py 165-168): counts EVERY blank and tab before the
\* signature on its line
RECURSIVE CountIndent(_)
CountIndent(s) ==
    IF Len(s) = 0 THEN 0
    ELSE (IF Head(s) = " " THEN 1 ELSE IF Head(s) = TAB THEN 4 ELSE 0)
         + CountIndent(Tail(s))

\* current_indent (patcher.py 181-185): leading blanks and tabs only
RECURSIVE LeadingIndent(_)
LeadingIndent(s) ==
    IF Len(s) = 0 THEN 0
    ELSE IF Head(s) = " " THEN 1 + LeadingIndent(Tail(s))
    ELSE IF Head(s) = TAB THEN 4 + LeadingIndent(Tail(s))
    ELSE 0

\* the while loop of patcher.py 171-189: the position where the block ends
RECURSIVE BlockEnd(_, _, _)
BlockEnd(code, curr_pos, target_indent) ==
    IF curr_pos >= Len(code) THEN curr_pos
    ELSE LET found == Find(code, <<NL>>, curr_pos)
             next_line_end == IF found = -1 THEN Len(code) ELSE found
             line_content == Slice(code, curr_pos, next_line_end)
         IN  IF Len(StripWS(line_content)) = 0
             THEN BlockEnd(code, next_line_end + 1, target_indent)
             ELSE IF LeadingIndent(line_content) <= target_indent
             THEN curr_pos
             ELSE BlockEnd(code, next_line_end + 1, target_indent)

\* the span Strategy 1 replaces: [found, line_start, curr_pos, target_indent]
DeleteSpan(modified_code, search_block) ==
    LET signature == StripWS(RemoveMarker(search_block))
        start_idx == Find(modified_code, signature, 0)
    IN  IF start_idx = -1
        THEN [found |-> FALSE, line_start |-> 0, curr_pos |-> 0,
              target_indent |-> 0]
        ELSE LET line_start == RFindNL(modified_code, start_idx) + 1
                 nl == Find(modified_code, <<NL>>, start_idx)
                 line_end == IF nl = -1 THEN Len(modified_code) ELSE nl
                 target_indent ==
                     CountIndent(Slice(modified_code, line_start, start_idx))
             IN  [found |-> TRUE, line_start |-> line_start,
                  curr_pos |-> BlockEnd(modified_code, line_end + 1, target_indent),
                  target_indent |-> target_indent]

\* Strategy 1 (patcher.py 155-197): [ok, text]
SmartDelete(modified_code, search_block, replace_block) ==
    LET sp == DeleteSpan(modified_code, search_block)
    IN  IF ~sp.found THEN [ok |-> FALSE, text |-> modified_code]
        ELSE [ok |-> TRUE,
              text |-> Slice(modified_code, 0, sp.line_start) \o replace_block
                       \o Slice(modified_code, Min(sp.curr_pos, Len(modified_code)),
                                Len(modified_code))]

\* Strategy 2 (patcher.py 200-203): replace the first occurrence
ExactReplace(modified_code, search_block, replace_block) ==
    LET i == Find(modified_code, search_block, 0)
    IN  IF i = -1 THEN [ok |-> FALSE, text |-> modified_code]
        ELSE [ok |-> TRUE,
              text |-> Slice(modified_code, 0, i) \o replace_block
                       \o Slice(modified_code, i + Len(search_block),
                                Len(modified_code))]

\* _apply_soft_match: [ok, text]
ApplySoftMatch(full_text, search, replace) ==
    LET stripped == [k \in 1..Len(SplitLines(search)) |->
                        StripWS(SplitLines(search)[k])]
        search_lines == SelectSeq(stripped, LAMBDA l : Len(l) > 0)
        text_lines == SplitLines(full_text)
        n == Len(search_lines)
        hits == {i \in 0..(Len(text_lines) - n) :
                    \A j \in 1..n : StripWS(text_lines[i + j]) = search_lines[j]}
    IN  IF n = 0 \/ hits = {} THEN [ok |-> FALSE, text |-> full_text]
        ELSE LET i == CHOOSE x \in hits : \A y \in hits : x <= y
                 pre_text == JoinLines(SubSeq(text_lines, 1, i))
                 post_text == JoinLines(SubSeq(text_lines, i + n + 1,
                                               Len(text_lines)))
             IN  [ok |-> TRUE,
                  text |-> pre_text \o <<NL>> \o replace \o <<NL>> \o post_text]

(***************************************************************************)
(* apply_patches_robust.  In a patch text the tokens "F", "S", "M" and "R" *)
(* stand for the code fence, "<<<<<<< SEARCH", "=======" and               *)
(* ">>>>>>> REPLACE".                                                      *)
(***************************************************************************)
FENCE == "F"
SEARCH == "S"
SEPARATOR == "M"
REPLACE == "R"

\* s.split(sub): the pieces between the occurrences of sub, left to right
RECURSIVE SplitSeq(_, _)
SplitSeq(s, sub) ==
    LET i == Find(s, sub, 0)
    IN  IF i = -1 THEN <<s>>
        ELSE <<Slice(s, 0, i)>> \o SplitSeq(Slice(s, i + Len(sub), Len(s)), sub)

\* s.split(sub, 1)
SplitOnce(s, sub) ==
    LET i == Find(s, sub, 0)
    IN  IF i = -1 THEN <<s>>
        ELSE <<Slice(s, 0, i), Slice(s, i + Len(sub), Len(s))>>

Applied == {"delete", "exact", "soft"}

LogEntry(tier, search, replace, before, after) ==
    [tier |-> tier, search |-> search, replace |-> replace,
     before |-> before, after |-> after]

\* a block no tier applied (patcher.py 195-197, 212)
Failed(modified_code, search_block, replace_block) ==
    LogEntry("failed", search_block, replace_block, modified_code, modified_code)

\* the outcome r of one tier: applied when it succeeded, else what follows
Attempt(tier, r, modified_code, search_block, replace_block, otherwise) ==
    IF r.ok
    THEN LogEntry(tier, search_block, replace_block, modified_code, r.text)
    ELSE otherwise

\* the tiers on one well-formed block (patcher.py 154-212)
ApplyTiersSoftFirst(modified_code, search_block, replace_block) ==
    IF HasMarker(search_block)
    THEN Attempt("delete", SmartDelete(modified_code, search_block, replace_block),
                 modified_code, search_block, replace_block,
                 Failed(modified_code, search_block, replace_block))
    ELSE Attempt("soft", ApplySoftMatch(modified_code, search_block, replace_block),
                 modified_code, search_block, replace_block,
                 Attempt("exact", ExactReplace(modified_code, search_block, replace_block),
                         modified_code, search_block, replace_block,
                         Failed(modified_code, search_block, replace_block)))

ApplyTiers(modified_code, search_block, replace_block) ==
    IF HasMarker(search_block)
    THEN Attempt("delete", SmartDelete(modified_code, search_block, replace_block),
                 modified_code, search_block, replace_block,
                 Failed(modified_code, search_block, replace_block))
    ELSE Attempt("exact", ExactReplace(modified_code, search_block, replace_block),
                 modified_code, search_block, replace_block,
                 Attempt("soft", ApplySoftMatch(modified_code, search_block, replace_block),
                         modified_code, search_block, replace_block,
                         Failed(modified_code, search_block, replace_block)))

\* the body of the loop over blocks[1:] (patcher.py 144-215)
ApplyBlock(modified_code, block) ==
    LET skip == LogEntry("skip", <<>>, <<>>, modified_code, modified_code)
        halves == SplitOnce(block, <<NL, SEPARATOR, NL>>)
        rests == SplitOnce(halves[2], <<NL, REPLACE>>)
    IN  IF ~Contains(block, <<SEPARATOR, NL>>) \/ ~Contains(block, <<REPLACE>>)
        THEN skip
        ELSE IF Len(halves) # 2 THEN skip
        ELSE IF Len(rests) # 2 THEN skip
        ELSE ApplyTiers(modified_code, StripNL(halves[1]), StripNL(rests[1]))

RECURSIVE RunBlocks(_, _)
RunBlocks(modified_code, blocks) ==
    IF Len(blocks) = 0 THEN <<>>
    ELSE LET entry == ApplyBlock(modified_code, Head(blocks))
         IN  <<entry>> \o RunBlocks(entry.after, Tail(blocks))

\* what a call that raises returns
NoText == <<"ValueError">>

\* patcher.py 136-139: the text between the first two fences when the patch
\* text holds a fence, split at the SEARCH headers
ReadBlocks(patch_text) ==
    SplitSeq(IF Contains(patch_text, <<FENCE>>)
             THEN Split(patch_text, FENCE)[2]
             ELSE patch_text,
             <<SEARCH, NL>>)

\* patcher.py 217-225: raise when nothing was applied and a block was present
Outcome(original_code, blocks, log) ==
    LET applied_count == Cardinality({k \in 1..Len(log) : log[k].tier \in Applied})
        raised == applied_count = 0 /\ Len(blocks) > 1
    IN  [called |-> TRUE, raised |-> raised,
         text |-> IF raised THEN NoText
                  ELSE IF Len(log) = 0 THEN original_code
                  ELSE log[Len(log)].after,
         applied_count |-> applied_count, log |-> log]

PatchBlocks(original_code, blocks) ==
    Outcome(original_code, blocks, RunBlocks(original_code, Tail(blocks)))

\* apply_patches_robust: [raised, text, applied_count, log]
ApplyPatchesRobust(original_code, patch_text) ==
    PatchBlocks(original_code, ReadBlocks(patch_text))

(***************************************************************************)
(* Patch engine: bounds and input universes.                               *)
(***************************************************************************)
MaxLines == 3       \* lines of the code being patched
MaxBlocks == 2      \* SEARCH/REPLACE blocks of one patch text

L_c == <<"c">>
L_b == <<" ", "b">>
L_blank == <<>>
L_aEb == <<"a", ELLIPSIS, "b">>
L_ic == <<" ", "c">>
CodeLines == {L_c, L_b, L_blank, L_aEb, L_ic}

\* every line of the code ends with a newline
RECURSIVE Lines(_)
Lines(ls) == IF Len(ls) = 0 THEN <<>> ELSE Head(ls) \o <<NL>> \o Lines(Tail(ls))

Codes == {Lines(ls) : ls \in SeqsUpTo(CodeLines, MaxLines) \ {<<>>}}

Block(form, search, replace) ==
    [form |-> form, search |-> search, replace |-> replace]

B_delete == Block("ok", <<"c", ELLIPSIS>>, <<"r">>)
B_exact == Block("ok", <<"c">>, <<"r">>)
B_soft == Block("ok", <<" ", " ", "b">>, <<"r">>)
B_marker == Block("ok", L_aEb, <<"r">>)
B_empty == Block("ok", <<>>, <<"r">>)
B_bad == Block("no_separator", <<"c">>, <<"r">>)
Blocks == {B_delete, B_exact, B_soft, B_marker, B_empty, B_bad}

\* the text of one block as the model writes it
BlockText(b) ==
    IF b.form = "ok"
    THEN <<SEARCH, NL>> \o b.search \o <<NL, SEPARATOR, NL>> \o b.replace
         \o <<NL, REPLACE, NL>>
    ELSE <<SEARCH, NL>> \o b.search \o <<NL>> \o b.replace \o <<NL, REPLACE, NL>>

RECURSIVE BlocksText(_)
BlocksText(bs) ==
    IF Len(bs) = 0 THEN <<>> ELSE BlockText(Head(bs)) \o BlocksText(Tail(bs))

\* a patch text: the blocks bare, inside one code fence, or followed by a
\* remark that quotes a word in a code fence
Fences == {"none", "around", "after"}
PatchText(bs, fence) ==
    IF fence = "around"
    THEN <<FENCE, NL>> \o BlocksText(bs) \o <<FENCE, NL>>
    ELSE IF fence = "after"
    THEN BlocksText(bs) \o <<FENCE, "c", FENCE, NL>>
    ELSE BlocksText(bs)

PatchTexts ==
    {PatchText(bs, fence) : bs \in SeqsUpTo(Blocks, MaxBlocks), fence \in Fences}

NotCalled ==
    [called |-> FALSE, raised |-> FALSE, text |-> <<>>, applied_count |-> 0,
     log |-> <<>>]

PatcherInit ==
    /\ p_code \in Codes
    /\ p_patch = <<>>
    /\ p_out = NotCalled

\* one call of apply_patches_robust(p_code, patch_text)
ApplyPatches ==
    /\ ~p_out.called
    /\ \E patch_text \in PatchTexts :
        /\ p_patch' = patch_text
        /\ p_out' = ApplyPatchesRobust(p_code, patch_text)
    /\ UNCHANGED <<p_code, notPatcher>>

PatcherNext == ApplyPatches

(***************************************************************************)
(* Format-preserving removal engine (core/cst_patcher.py).                 *)
(* A source is a sequence of lines [indent, kind, name]; kind is "def",    *)
(* "class", "stmt" (a simple statement), "stmts" (a run of name simple     *)
(* statements), "import", "comment", "blank", "doc" (a string expression   *)
(* on one line; its name is "triple" or "single" after its quotes) or, for *)
(* a string expression over several lines, "docopen" (the line that opens  *)
(* the triple quotes), "doctext" and "docclose" (the closing quotes on a   *)
(* line of their own).  The lossless tree                                  *)
(* keeps, for every statement, the comment lines directly above it         *)
(* (leading), and for every block the comment lines after its last         *)
(* statement (footer); the comment lines above the first statement of the  *)
(* file belong to the module (header).                                     *)
(***************************************************************************)
Line(indent, kind, name) == [indent |-> indent, kind |-> kind, name |-> name]

Node(kind, name, leading, body, footer) ==
    [kind |-> kind, name |-> name, leading |-> leading, body |-> body,
     footer |-> footer]

ParseError == [ok |-> FALSE, nodes |-> <<>>, footer |-> <<>>, next |-> 0]

\* the kinds of line that open a block, and the kinds that are a statement;
\* a line of any other kind than these and "comment" is not Python
Compound == {"def", "class"}
Statement == Compound \cup {"stmt", "stmts", "import", "doc", "docopen"}

\* the line that closes the string opened before line k, 0 when the string
\* is not closed
RECURSIVE DocClose(_, _)
DocClose(lines, k) ==
    IF k > Len(lines) THEN 0
    ELSE IF lines[k].kind = "docclose" THEN k
    ELSE IF lines[k].kind = "doctext" THEN DocClose(lines, k + 1)
    ELSE 0

\* the last line of the simple statement that starts at line j
StatementEnd(lines, j) ==
    IF lines[j].kind = "docopen" THEN DocClose(lines, j + 1) ELSE j

\* the lines a statement is written with; the name of a "docopen" node is
\* the number of text lines of its string
StatementLines(d, kind, name) ==
    IF kind = "docopen"
    THEN <<Line(d, "docopen", name)>>
         \o [k \in 1..name |-> Line(0, "doctext", "")]
         \o <<Line(0, "docclose", "")>>
    ELSE <<Line(d, kind, name)>>

\* the first line from i on that is not a comment of the block at depth d
RECURSIVE FirstStatement(_, _, _)
FirstStatement(lines, i, d) ==
    IF i > Len(lines) THEN i
    ELSE IF (lines[i].kind = "comment" /\ lines[i].indent = d)
            \/ lines[i].kind = "blank"
    THEN FirstStatement(lines, i + 1, d)
    ELSE i

\* the statements of the block at depth d that starts at line i
RECURSIVE ParseBlock(_, _, _)
ParseBlock(lines, i, d) ==
    LET j == FirstStatement(lines, i, d)
    IN  IF j > Len(lines) \/ lines[j].indent < d
        THEN [ok |-> TRUE, nodes |-> <<>>, footer |-> SubSeq(lines, i, j - 1),
              next |-> j]
        ELSE IF lines[j].indent > d \/ lines[j].kind \notin Statement
                \/ StatementEnd(lines, j) = 0
        THEN ParseError
        ELSE LET leading == SubSeq(lines, i, j - 1)
                 compound == lines[j].kind \in Compound
                 inner == IF compound THEN ParseBlock(lines, j + 1, d + 1)
                          ELSE [ok |-> TRUE, nodes |-> <<>>, footer |-> <<>>,
                                next |-> StatementEnd(lines, j) + 1]
             IN  IF ~inner.ok \/ (compound /\ Len(inner.nodes) = 0)
                 THEN ParseError
                 ELSE LET rest == ParseBlock(lines, inner.next, d)
                          node == Node(lines[j].kind,
                                       IF lines[j].kind = "docopen"
                                       THEN StatementEnd(lines, j) - j - 1
                                       ELSE lines[j].name,
                                       leading, inner.nodes, inner.footer)
                      IN  IF ~rest.ok THEN ParseError
                          ELSE [ok |-> TRUE, nodes |-> <<node>> \o rest.nodes,
                                footer |-> rest.footer, next |-> rest.next]

\* cst.parse_module: [ok, header, body, footer]
ParseModule(source_code) ==
    LET b == ParseBlock(source_code, 1, 0)
    IN  IF ~b.ok \/ b.next <= Len(source_code)
        THEN [ok |-> FALSE, header |-> <<>>, body |-> <<>>, footer |-> <<>>]
        ELSE IF Len(b.nodes) = 0
        THEN [ok |-> TRUE, header |-> b.footer, body |-> <<>>, footer |-> <<>>]
        ELSE [ok |-> TRUE, header |-> b.nodes[1].leading,
              body |-> <<[b.nodes[1] EXCEPT !.leading = <<>>]>> \o Tail(b.nodes),
              footer |-> b.footer]

\* leave_FunctionDef / leave_ClassDef: <<>> stands for RemoveFromParent
LeaveFunctionDefKeep(original_node, updated_node, names) == <<updated_node>>

LeaveFunctionDef(original_node, updated_node, names) ==
    IF original_node.name \in names THEN <<>> ELSE <<updated_node>>

LeaveClassDef(original_node, updated_node, names) ==
    IF original_node.name \in names THEN <<>> ELSE <<updated_node>>

\* tree.visit(transformer): children first, then the leave_ method of the node
RECURSIVE VisitNodes(_, _)
VisitNodes(nodes, names) ==
    IF Len(nodes) = 0 THEN <<>>
    ELSE LET original_node == Head(nodes)
             updated_node ==
                 [original_node EXCEPT !.body = VisitNodes(original_node.body, names)]
             left == IF original_node.kind = "def"
                     THEN LeaveFunctionDef(original_node, updated_node, names)
                     ELSE IF original_node.kind = "class"
                     THEN LeaveClassDef(original_node, updated_node, names)
                     ELSE <<updated_node>>
         IN  left \o VisitNodes(Tail(nodes), names)

\* the statement a block left without statements is written with
PassLine(d) == Line(d, "stmt", "pass")

\* modified_tree.code
RECURSIVE CodeOf(_, _)
CodeOf(nodes, d) ==
    IF Len(nodes) = 0 THEN <<>>
    ELSE LET n == Head(nodes)
             block == IF n.kind \notin Compound THEN <<>>
                      ELSE IF Len(n.body) = 0 THEN <<PassLine(d + 1)>>
                      ELSE CodeOf(n.body, d + 1)
         IN  n.leading \o StatementLines(d, n.kind, n.name) \o block \o n.footer
             \o CodeOf(Tail(nodes), d)

ModuleCode(tree) == tree.header \o CodeOf(tree.body, 0) \o tree.footer

\* remove_definitions_cst: [called, raised, code]
RemoveDefinitionsCst(source_code, names) ==
    LET tree == ParseModule(source_code)
        modified_tree == [tree EXCEPT !.body = VisitNodes(tree.body, names)]
    IN  IF ~tree.ok THEN [called |-> TRUE, raised |-> TRUE, code |-> <<>>]
        ELSE [called |-> TRUE, raised |-> FALSE, code |-> ModuleCode(modified_tree)]

(***************************************************************************)
(* Removal engine: bounds and input universes.                             *)
(***************************************************************************)
MaxStmts == 2       \* top-level statements of the source

Comment(d) == Line(d, "comment", "c")
Stmt(d) == Line(d, "stmt", "x")

T_x == <<Stmt(0)>>
T_foo == <<Line(0, "def", "foo"), Stmt(1)>>
T_bar == <<Line(0, "def", "bar"), Stmt(1)>>
T_c_foo == <<Comment(0)>> \o T_foo
T_c_bar == <<Comment(0)>> \o T_bar
T_Baz_foo == <<Line(0, "class", "Baz"), Line(1, "def", "foo"), Stmt(2)>>
T_Baz_foo_bar ==
    <<Line(0, "class", "Baz"), Comment(1), Line(1, "def", "foo"), Stmt(2),
      Line(1, "def", "bar"), Stmt(2), Comment(1)>>
T_foo_bar == <<Line(0, "def", "foo"), Line(1, "def", "bar"), Stmt(2), Stmt(1)>>
T_broken == <<Line(0, "def", "foo")>>
TopLevel ==
    {T_x, T_foo, T_bar, T_c_foo, T_c_bar, T_Baz_foo, T_Baz_foo_bar, T_foo_bar,
     T_broken}

RECURSIVE Concat(_)
Concat(parts) == IF Len(parts) = 0 THEN <<>> ELSE Head(parts) \o Concat(Tail(parts))

Sources == {Concat(parts) : parts \in SeqsUpTo(TopLevel, MaxStmts)}

NameSets == SUBSET {"foo", "Baz", "zed"}

CstNotCalled == [called |-> FALSE, raised |-> FALSE, code |-> <<>>]

CstInit ==
    /\ c_source \in Sources
    /\ c_names = {}
    /\ c_out = CstNotCalled

\* one call of remove_definitions_cst(c_source, names)
RemoveDefinitions ==
    /\ ~c_out.called
    /\ \E names \in NameSets :
        /\ c_names' = names
        /\ c_out' = RemoveDefinitionsCst(c_source, names)
    /\ UNCHANGED <<c_source, notCst>>

CstNext == RemoveDefinitions

(***************************************************************************)
(* Generated text (core/worker).  What the generator returns is a text of  *)
(* lines like a source; a line that is not Python has one of the kinds     *)
(* "fence" (a Markdown code fence), "target" and "source" (the opening     *)
(* markers, which hold "<<<<<<<"), "separator", "end", "prose" and "sign"  *)
(* (a line that starts with the failure sign of a provider).               *)
(***************************************************************************)
\* str.strip(): the first line loses its indentation
StripText(text) ==
    IF Len(text) = 0 THEN text
    ELSE <<[text[1] EXCEPT !.indent = 0]>> \o Tail(text)

StartsWithKind(text, kinds) == Len(text) > 0 /\ text[1].kind \in kinds

HasKind(text, kinds) == \E i \in 1..Len(text) : text[i].kind \in kinds

\* ast.parse(code) does not raise SyntaxError
AstParse(code) == ParseModule(code).ok

\* _validate_syntax
ValidateSyntax(code) == AstParse(code)

Returned(text) == [raised |-> "none", why |-> "", text |-> text]
Raised(exception, why) == [raised |-> exception, why |-> why, text |-> <<>>]

\* _call_llm on what the provider did: response.failed is an exception of
\* the provider, response.text the string it returned
CallLlm(response) ==
    IF response.failed THEN Raised("RuntimeError", "provider")
    ELSE IF StartsWithKind(response.text, {"sign"})
    THEN Raised("RuntimeError", "sign")
    ELSE Returned(StripText(response.text))

\* _clean_llm_code: a text that starts with a fence reaches
\* lines.startswith, which a list does not have
CleanLlmCode(raw_code) ==
    IF StartsWithKind(StripText(raw_code), {"fence"})
    THEN Raised("AttributeError", "startswith")
    ELSE Returned(StripText(StripText(raw_code)))

\* range(3)
Attempts == 3

\* the prompt sent again as it was
WithErrorDropped(user_prompt) == user_prompt

\* user_prompt += "ERROR: Your previous code had a SyntaxError ..."
WithError(user_prompt) == [user_prompt EXCEPT !.errors = @ + 1]

\* "<<<<<<<" in raw
ContainsDelimiters(raw) == HasKind(raw, {"target", "source"})

\* original_code and "def " in original_code
LooksLikePython(original_code) == HasKind(original_code, {"def"})

ShouldValidate(raw, original_code) ==
    /\ ~ContainsDelimiters(raw)
    /\ \/ LooksLikePython(original_code)
       \/ StartsWithKind(raw, {"import"})

Done(result, sent, outs) ==
    [called |-> TRUE, raised |-> result.raised, why |-> result.why,
     text |-> result.text, sent |-> sent, outs |-> outs]

\* _call_llm_with_retry from the given attempt on: the set of ways the loop
\* can end, one for every behaviour of the generator; sent and outs are the
\* prompts sent and the responses received so far
RECURSIVE CallLlmWithRetry(_, _, _, _, _, _, _)
AfterCall(user_prompt, original_code, validate_syntax, outputs, attempt, sent, outs, called) ==
    IF called.raised # "none" THEN {Done(called, sent, outs)}
    ELSE IF CleanLlmCode(called.text).raised # "none"
    THEN {Done(CleanLlmCode(called.text), sent, outs)}
    ELSE IF ~validate_syntax THEN {Done(CleanLlmCode(called.text), sent, outs)}
    ELSE IF ~ShouldValidate(CleanLlmCode(called.text).text, original_code)
    THEN {Done(CleanLlmCode(called.text), sent, outs)}
    ELSE IF AstParse(CleanLlmCode(called.text).text)
    THEN {Done(CleanLlmCode(called.text), sent, outs)}
    ELSE CallLlmWithRetry(WithError(user_prompt), original_code, validate_syntax,
                          outputs, attempt + 1, sent, outs)

CallLlmWithRetry(user_prompt, original_code, validate_syntax, outputs, attempt, sent, outs) ==
    IF attempt > Attempts
    THEN {Done(Raised("RuntimeError", "attempts"), sent, outs)}
    ELSE UNION {AfterCall(user_prompt, original_code, validate_syntax, outputs,
                          attempt, Append(sent, user_prompt), Append(outs, response),
                          CallLlm(response)) : response \in outputs}

(***************************************************************************)
(* Generator call: input universes.                                        *)
(***************************************************************************)
Prompt(kind, context) == [kind |-> kind, context |-> context, errors |-> 0]

Said(text) == [failed |-> FALSE, text |-> text]
ProviderFailed == [failed |-> TRUE, text |-> <<>>]

Import == Line(0, "import", "os")
Fence == Line(0, "fence", "")
Prose == Line(0, "prose", "I cannot")

G_valid == T_foo
G_import_valid == <<Import>> \o T_bar
G_import_broken == <<Import>> \o T_broken
G_broken == T_broken
G_fenced == <<Fence>> \o T_foo \o <<Fence>>
G_prose == <<Prose>>
G_sign == <<Line(0, "sign", "")>>
G_marked == <<Line(0, "source", ""), Stmt(0), Line(0, "end", "")>>

CodeOutputs ==
    {Said(t) : t \in {G_valid, G_import_valid, G_import_broken, G_broken,
                      G_fenced, G_prose, G_sign, G_marked}}
    \cup {ProviderFailed}

RetryNotCalled ==
    [called |-> FALSE, raised |-> "none", why |-> "", text |-> <<>>,
     sent |-> <<>>, outs |-> <<>>]

RetryInit ==
    /\ l_req \in [user_prompt : {Prompt("code", <<>>)},
                  original_code : {<<>>, T_x, T_foo},
                  validate_syntax : BOOLEAN]
    /\ l_out = RetryNotCalled

\* one call of _call_llm_with_retry(user_prompt, system_prompt, original_code,
\* validate_syntax) against a generator that answers anything of CodeOutputs
CallWithRetry ==
    /\ ~l_out.called
    /\ l_out' \in CallLlmWithRetry(l_req.user_prompt, l_req.original_code,
                                  l_req.validate_syntax, CodeOutputs, 1, <<>>, <<>>)
    /\ UNCHANGED <<l_req, notRetry>>

RetryNext == CallWithRetry


(***************************************************************************)
(* EXTRACT_AND_MODIFY response (_extract_and_modify).  The markers stand   *)
(* on lines of their own: "target" is <<<<<<< TARGET_CONTENT, "separator"  *)
(* is =======, "source" is <<<<<<< SOURCE_CONTENT and "end" is >>>>>>>.    *)
(***************************************************************************)
\* raw_response.find(marker, from): the first line of that kind at or after
\* line from, 0 when there is none
RECURSIVE FindKind(_, _, _)
FindKind(text, kind, from) ==
    IF from > Len(text) THEN 0
    ELSE IF text[from].kind = kind THEN from
    ELSE FindKind(text, kind, from + 1)

\* raw_response[a:b].strip() for the lines after line a and before line b
Section(text, a, b) == StripText(SubSeq(text, a + 1, b - 1))

Extracted(target_content, source_content, truncated) ==
    [called |-> TRUE, raised |-> "none", why |-> "",
     target_content |-> target_content, source_content |-> source_content,
     truncated |-> truncated,
     syntax_warning |-> ~AstParse(source_content)]

ExtractFailed(exception, why) ==
    [called |-> TRUE, raised |-> exception, why |-> why,
     target_content |-> <<>>, source_content |-> <<>>,
     truncated |-> FALSE, syntax_warning |-> FALSE]

\* the cleanup of both sections and the returned dict
CleanSections(target_content, source_content, truncated) ==
    IF CleanLlmCode(target_content).raised # "none"
    THEN ExtractFailed(CleanLlmCode(target_content).raised, "target")
    ELSE IF CleanLlmCode(source_content).raised # "none"
    THEN ExtractFailed(CleanLlmCode(source_content).raised, "source")
    ELSE Extracted(CleanLlmCode(target_content).text,
                   CleanLlmCode(source_content).text, truncated)

\* the SOURCE block, searched after the separator
SourceSection(raw_response, t_start, t_end, s_start, s_end) ==
    IF s_start = 0 THEN ExtractFailed("ValueError", "source")
    ELSE CleanSections(Section(raw_response, t_start, t_end),
                       Section(raw_response, s_start,
                               IF s_end = 0 THEN Len(raw_response) + 1 ELSE s_end),
                       s_end = 0)

\* the TARGET block: the separator is the first one of the whole text
TargetSection(raw_response, t_start, t_end) ==
    IF t_start = 0 \/ t_end = 0 THEN ExtractFailed("ValueError", "target")
    ELSE SourceSection(raw_response, t_start, t_end,
                       FindKind(raw_response, "source", t_end),
                       IF FindKind(raw_response, "source", t_end) = 0 THEN 0
                       ELSE FindKind(raw_response, "end",
                                     FindKind(raw_response, "source", t_end)))

\* the manual block parsing of raw_response
ParseSections(raw_response) ==
    TargetSection(raw_response, FindKind(raw_response, "target", 1),
                  FindKind(raw_response, "separator", 1))

\* _extract_and_modify: one generator call without syntax validation, then
\* the parsing of what it returned
ExtractAndModify(prompt, outputs) ==
    {IF done.raised # "none" THEN ExtractFailed(done.raised, done.why)
     ELSE ParseSections(done.text) :
        done \in CallLlmWithRetry(prompt, <<>>, FALSE, outputs, 1, <<>>, <<>>)}

(***************************************************************************)
(* EXTRACT_AND_MODIFY response: bounds and input universes.                *)
(***************************************************************************)
MaxRaw == 5         \* lines of the response

RawLines ==
    {Line(0, "target", ""), Line(0, "separator", ""), Line(0, "source", ""),
     Line(0, "end", ""), Stmt(0), Fence}

ExtractNotCalled == [ExtractFailed("none", "") EXCEPT !.called = FALSE]

ExtractInit ==
    /\ x_raw \in SeqsUpTo(RawLines, MaxRaw)
    /\ x_out = ExtractNotCalled

\* one call of _extract_and_modify with a generator that answers x_raw
ExtractSourceAndTarget ==
    /\ ~x_out.called
    /\ x_out' \in ExtractAndModify(Prompt("extract", <<>>), {Said(x_raw)})
    /\ UNCHANGED <<x_raw, notExtract>>

ExtractNext == ExtractSourceAndTarget

(***************************************************************************)
(* Syntax-tree helpers of the worker (core/ast_patcher.py), on texts of    *)
(* lines.                                                                  *)
(***************************************************************************)
\* len(text.splitlines()): a "stmts" line stands for name lines
RECURSIVE LineCount(_)
LineCount(text) ==
    IF Len(text) = 0 THEN 0
    ELSE (IF Head(text).kind = "stmts" THEN Head(text).name ELSE 1)
         + LineCount(Tail(text))

\* len(text), every line counted as ten characters
Chars(text) == 10 * LineCount(text)

\* collect_definitions: the names defined at any depth; raises SyntaxError
CollectDefinitions(source) ==
    IF ~AstParse(source) THEN [raised |-> TRUE, names |-> {}]
    ELSE [raised |-> FALSE,
          names |-> {source[i].name : i \in {j \in 1..Len(source) :
                                             source[j].kind \in Compound}}]

Lowest(S) == CHOOSE x \in S : \A y \in S : x <= y
Highest(S) == CHOOSE x \in S : \A y \in S : y <= x

\* node.end_lineno of the definition that starts at line i
EndLineno(source_code, i) ==
    Highest({i} \cup {j \in i + 1..Len(source_code) :
                    /\ source_code[j].kind # "comment"
                    /\ \A k \in i + 1..j :
                        source_code[k].indent > source_code[i].indent})

\* the nodes of tree.body that define func_name
TopLevelNamed(source_code, func_name) ==
    {i \in 1..Len(source_code) :
        /\ source_code[i].indent = 0
        /\ source_code[i].kind \in Compound
        /\ source_code[i].name = func_name}

\* extract_function_source: the lines of the first top-level definition of
\* that name; <<>> stands for None
ExtractFunctionSource(source_code, func_name) ==
    IF ~AstParse(source_code) \/ TopLevelNamed(source_code, func_name) = {}
    THEN <<>>
    ELSE SubSeq(source_code, Lowest(TopLevelNamed(source_code, func_name)),
                EndLineno(source_code, Lowest(TopLevelNamed(source_code, func_name))))

\* extract_imports_source: the import statements of tree.body
RECURSIVE TopLevelImports(_)
TopLevelImports(source_code) ==
    IF Len(source_code) = 0 THEN <<>>
    ELSE (IF Head(source_code).kind = "import" /\ Head(source_code).indent = 0
          THEN <<Head(source_code)>> ELSE <<>>)
         \o TopLevelImports(Tail(source_code))

ExtractImportsSource(source_code) ==
    IF ~AstParse(source_code) THEN <<>> ELSE TopLevelImports(source_code)

\* DeletionTransformer: a named definition is dropped with all it holds, the
\* children of any other node are visited
RECURSIVE DeletionVisit(_, _)
DeletionVisit(nodes, to_delete) ==
    IF Len(nodes) = 0 THEN <<>>
    ELSE (IF Head(nodes).kind \in Compound /\ Head(nodes).name \in to_delete
          THEN <<>>
          ELSE <<[Head(nodes) EXCEPT !.body = DeletionVisit(@, to_delete)]>>)
         \o DeletionVisit(Tail(nodes), to_delete)

\* ast.unparse: the statements only, no comment, and nothing for a body
\* left without statements
RECURSIVE Unparse(_, _)
Unparse(nodes, d) ==
    IF Len(nodes) = 0 THEN <<>>
    ELSE StatementLines(d, Head(nodes).kind, Head(nodes).name)
         \o Unparse(Head(nodes).body, d + 1) \o Unparse(Tail(nodes), d)

\* the statement nodes of a parsed source, the very first with its place
AstBody(source) == ParseBlock(source, 1, 0).nodes

\* delete_definitions
DeleteDefinitions(source, names) ==
    IF names = {} THEN [raised |-> FALSE, text |-> source]
    ELSE IF ~AstParse(source) THEN [raised |-> TRUE, text |-> <<>>]
    ELSE [raised |-> FALSE,
          text |-> Unparse(DeletionVisit(AstBody(source), names), 0)]

\* parse_llm_json_list: the names of the first JSON list of strings in the
\* text, a "json" line, whose name is that list
ParseLlmJsonList(raw) ==
    IF FindKind(raw, "json", 1) = 0 THEN <<>>
    ELSE raw[FindKind(raw, "json", 1)].name

(***************************************************************************)
(* Worker strategies (core/worker/strategies.py).  A strategy returns the  *)
(* set of ways it can end, one for every behaviour of the generator;       *)
(* generator.code, .patch, .names and .extract are the answers the         *)
(* generator may give to a prompt of that kind.                            *)
(***************************************************************************)
NoPrompt == Prompt("none", <<>>)

\* how a strategy ended: what it raised or the text it returned, the number
\* of generator calls, the engines it went through and its first prompt
StrategyEnd(raised, why, text, calls, engines, prompt) ==
    [raised |-> raised, why |-> why, text |-> text, calls |-> calls,
     engines |-> engines, prompt |-> prompt]

\* the ways a strategy ends when it hands over to another one after it made
\* calls generator calls and went through engines
HandOver(calls, engines, results) ==
    {[r EXCEPT !.calls = @ + calls, !.engines = engines \o @] : r \in results}

\* _full_rewrite
FullRewrite(original, generator) ==
    {StrategyEnd(done.raised, done.why, done.text, Len(done.outs),
              <<"full_rewrite">>, Prompt("rewrite", original)) :
        done \in CallLlmWithRetry(Prompt("rewrite", original), original, TRUE,
                                  generator.code, 1, <<>>, <<>>)}

\* apply_patches_robust on a text of lines.  The patch engine itself is the
\* subject of ApplyPatchesRobust; here a patch is taken by what its first
\* block, a "block" line, does to the file: "edit" changes it and leaves it
\* valid, "break" leaves a definition without body, "nomatch" matches no
\* text.  A patch text without block returns the file as it is.
ApplyPatchLines(original_code, patch_text) ==
    IF FindKind(patch_text, "block", 1) = 0 THEN Returned(original_code)
    ELSE IF patch_text[FindKind(patch_text, "block", 1)].name = "nomatch"
    THEN Raised("ValueError", "No blocks matched")
    ELSE IF patch_text[FindKind(patch_text, "block", 1)].name = "break"
    THEN Returned(original_code \o T_broken)
    ELSE Returned(original_code \o T_x)

\* the patched text returned without the syntax validation
PatchedUnchecked(original, generator, patch) ==
    IF patch.raised # "none"
    THEN {StrategyEnd(patch.raised, patch.why, <<>>, 1, <<"patch">>,
                      Prompt("patch", original))}
    ELSE IF ApplyPatchLines(original, patch.text).raised # "none"
    THEN {StrategyEnd("ValueError", "No blocks matched", <<>>, 1, <<"patch">>,
                      Prompt("patch", original))}
    ELSE {StrategyEnd("none", "", ApplyPatchLines(original, patch.text).text, 1,
                      <<"patch">>, Prompt("patch", original))}

\* _patch_large_file after the generator call
Patched(original, generator, patch) ==
    IF patch.raised # "none"
    THEN {StrategyEnd(patch.raised, patch.why, <<>>, 1, <<"patch">>,
                   Prompt("patch", original))}
    ELSE IF ApplyPatchLines(original, patch.text).raised # "none"
    THEN {StrategyEnd("ValueError", "No blocks matched", <<>>, 1, <<"patch">>,
                   Prompt("patch", original))}
    ELSE IF ~ValidateSyntax(ApplyPatchLines(original, patch.text).text)
    THEN HandOver(1, <<"patch">>, FullRewrite(original, generator))
    ELSE {StrategyEnd("none", "", ApplyPatchLines(original, patch.text).text, 1,
                   <<"patch">>, Prompt("patch", original))}

\* _patch_large_file
PatchLargeFile(original, generator) ==
    UNION {Patched(original, generator, CallLlm(response)) :
            response \in generator.patch}

\* [n for n in names if n in entities], as a set
ValidNames(names, entities) == SeqToSet(names) \cap entities

\* _semantic_delete after the generator call
Deleted(original, generator, entities, raw) ==
    IF raw.raised # "none"
    THEN {StrategyEnd(raw.raised, raw.why, <<>>, 1, <<"semantic_delete">>,
                   Prompt("delete", original))}
    ELSE IF ValidNames(ParseLlmJsonList(raw.text), entities) = {}
    THEN {StrategyEnd("none", "", original, 1, <<"semantic_delete">>,
                   Prompt("delete", original))}
    ELSE IF \/ DeleteDefinitions(original,
                   ValidNames(ParseLlmJsonList(raw.text), entities)).raised
            \/ StripText(DeleteDefinitions(original,
                   ValidNames(ParseLlmJsonList(raw.text), entities)).text)
               = StripText(original)
    THEN HandOver(1, <<"semantic_delete">>, FullRewrite(original, generator))
    ELSE {StrategyEnd("none", "",
                   DeleteDefinitions(original,
                       ValidNames(ParseLlmJsonList(raw.text), entities)).text,
                   1, <<"semantic_delete">>, Prompt("delete", original))}

\* _semantic_delete
SemanticDelete(original, generator) ==
    IF Len(original) = 0
    THEN {StrategyEnd("none", "", original, 0, <<"semantic_delete">>, NoPrompt)}
    ELSE IF CollectDefinitions(original).raised
    THEN HandOver(0, <<"semantic_delete">>, FullRewrite(original, generator))
    ELSE IF CollectDefinitions(original).names = {}
    THEN {StrategyEnd("none", "", original, 0, <<"semantic_delete">>, NoPrompt)}
    ELSE UNION {Deleted(original, generator, CollectDefinitions(original).names,
                        CallLlm(response)) : response \in generator.names}

\* the entities of the list for which extract_function_source returns code
\* (found) or nothing
RECURSIVE Extractions(_, _, _)
Extractions(source_content, entities, found) ==
    IF Len(entities) = 0 THEN <<>>
    ELSE (IF (ExtractFunctionSource(source_content, Head(entities)) # <<>>) = found
          THEN <<Head(entities)>> ELSE <<>>)
         \o Extractions(source_content, Tail(entities), found)

\* "\n\n".join(extracted_code)
RECURSIVE ExtractedCode(_, _)
ExtractedCode(source_content, entities) ==
    IF Len(entities) = 0 THEN <<>>
    ELSE ExtractFunctionSource(source_content, Head(entities))
         \o ExtractedCode(source_content, Tail(entities))

\* the extracted code alone, whatever was found
UseFullSourceNever(source_content, entities) == FALSE

\* use_full_source_as_context
UseFullSource(source_content, entities) ==
    IF Len(entities) > 0
    THEN /\ Extractions(source_content, entities, TRUE) = <<>>
         /\ Extractions(source_content, entities, FALSE) # <<>>
    ELSE TRUE

\* what _surgical_create puts in its prompt
SurgicalContext(source_content, entities) ==
    [source_imports |-> ExtractImportsSource(source_content),
     full_source |-> UseFullSource(source_content, entities),
     full_body |-> IF UseFullSource(source_content, entities)
                   THEN source_content
                   ELSE ExtractedCode(source_content, entities),
     failed_extractions |-> Extractions(source_content, entities, FALSE)]

\* _surgical_create
SurgicalCreate(source_content, entities, generator) ==
    {StrategyEnd(done.raised, done.why, done.text, Len(done.outs),
              <<"surgical_create">>,
              Prompt("surgical", SurgicalContext(source_content, entities))) :
        done \in CallLlmWithRetry(
                    Prompt("surgical", SurgicalContext(source_content, entities)),
                    <<>>, TRUE, generator.code, 1, <<>>, <<>>)}

(***************************************************************************)
(* Dispatcher (_process_change).  An instruction is a step of the plan:    *)
(* [action, target_file, source_file, description, detected_entities];     *)
(* source_file is "" when the step names none and the description is the   *)
(* sequence of its words in lower case.                                    *)
(***************************************************************************)
\* word in desc
HasWord(desc, word) == \E i \in 1..Len(desc) : desc[i] = word

\* "first second" in desc
HasPhrase(desc, first, second) ==
    \E i \in 1..Len(desc) - 1 : desc[i] = first /\ desc[i + 1] = second

\* is_delete of CASE 2
IsDelete(desc) ==
    HasWord(desc, "remove") \/ HasWord(desc, "delete") \/ HasWord(desc, "cleanup")

\* _looks_like_delete
LooksLikeDelete(instruction) ==
    IF instruction.action = "DELETE" THEN TRUE
    ELSE IF instruction.action = "CREATE" THEN FALSE
    ELSE IF \/ HasPhrase(instruction.description, "delete", "file")
            \/ HasPhrase(instruction.description, "remove", "file")
            \/ HasPhrase(instruction.description, "drop", "file")
    THEN TRUE
    ELSE \/ HasWord(instruction.description, "delete")
         \/ HasWord(instruction.description, "drop")
         \/ HasWord(instruction.description, "eliminate")
         \/ /\ HasWord(instruction.description, "remove")
            /\ \/ HasWord(instruction.description, "function")
               \/ HasWord(instruction.description, "class")
               \/ HasWord(instruction.description, "method")

\* len(original.splitlines()) > 600
LargeFile == 600

\* list.append(x) if x is not in the list
RECURSIVE AppendNew(_, _)
AppendNew(list, items) ==
    IF Len(items) = 0 THEN list
    ELSE AppendNew(IF Head(items) \in SeqToSet(list) THEN list
                   ELSE Append(list, Head(items)), Tail(items))

\* the map with key k set to v
Put(map, k, v) == [x \in DOMAIN map \cup {k} |-> IF x = k THEN v ELSE map[x]]

\* the first map with every key of the second set to its value there
Overwrite(map, new) ==
    [x \in DOMAIN map \cup DOMAIN new |-> IF x \in DOMAIN new THEN new[x] ELSE map[x]]

\* the entry of the source written anew
MapUpdateAnew(extraction_map, source_file, target, created_symbols) ==
    Put(extraction_map, source_file,
        [moved_to |-> <<target>>, symbols |-> created_symbols])

\* 4. MAPPING UPDATE of CASE 1
MapUpdate(extraction_map, source_file, target, created_symbols) ==
    Put(extraction_map, source_file,
        [moved_to |-> AppendNew(IF source_file \in DOMAIN extraction_map
                                THEN extraction_map[source_file].moved_to
                                ELSE <<>>, <<target>>),
         symbols |-> AppendNew(IF source_file \in DOMAIN extraction_map
                               THEN extraction_map[source_file].symbols
                               ELSE <<>>, created_symbols)])

\* the orders in which a set is iterated
Orders(S) == {q \in [1..Cardinality(S) -> S] : \A i, j \in 1..Cardinality(S) : i # j => q[i] # q[j]}

\* what _process_change did: the exception it raised or the files it
\* returned, the extraction map it left, the rule that took the step, the
\* names handed to the removal engine, and the strategy's account
Processed(route, files, extraction_map, names, end) ==
    [raised |-> end.raised, why |-> end.why, files |-> files,
     map |-> extraction_map, route |-> route, names |-> names,
     calls |-> end.calls, engines |-> end.engines, prompt |-> end.prompt]

\* a single-file strategy as the outcome of the step
OneFile(route, target, extraction_map, end) ==
    Processed(route, IF end.raised = "none" THEN target :> end.text ELSE EmptyMap,
              extraction_map, {}, end)

\* a mapping that registers the target before the new content exists
MappedBeforeCreate(instruction, extraction_map, end) ==
    IF end.raised # "none"
    THEN {OneFile("surgical_create", instruction.target_file,
                  MapUpdate(extraction_map, instruction.source_file,
                            instruction.target_file, <<>>), end)}
    ELSE {OneFile("surgical_create", instruction.target_file,
                  MapUpdate(extraction_map, instruction.source_file,
                            instruction.target_file, created_symbols), end) :
            created_symbols \in Orders(CollectDefinitions(end.text).names)}

\* CASE 1 after _surgical_create: the symbols of the new content go to the map
Mapped(instruction, extraction_map, end) ==
    IF end.raised # "none"
    THEN {OneFile("surgical_create", instruction.target_file, extraction_map, end)}
    ELSE {OneFile("surgical_create", instruction.target_file,
                  MapUpdate(extraction_map, instruction.source_file,
                            instruction.target_file, created_symbols), end) :
            created_symbols \in Orders(CollectDefinitions(end.text).names)}

\* the file of the project root, "" when there is none
ReadOrEmpty(disk, path) == IF path \in DOMAIN disk THEN disk[path] ELSE <<>>

\* CASE 1: CREATE with a source file
SurgicalCreation(instruction, extraction_map, disk, generator) ==
    UNION {Mapped(instruction, extraction_map, end) :
            end \in SurgicalCreate(ReadOrEmpty(disk, instruction.source_file),
                                   instruction.detected_entities, generator)}

\* mapped_symbols of CASE 2
MappedSymbols(extraction_map, target) ==
    IF target \in DOMAIN extraction_map THEN extraction_map[target].symbols
    ELSE <<>>

\* the declared entities only
RemovalEntitiesDeclared(instruction, extraction_map) ==
    instruction.detected_entities

\* entities of CASE 2: the declared ones, else the mapped ones
RemovalEntities(instruction, extraction_map) ==
    IF instruction.detected_entities # <<>> THEN instruction.detected_entities
    ELSE MappedSymbols(extraction_map, instruction.target_file)

\* the source returned as it is when the engine fails
SurgicalRemovalLenient(original, instruction, extraction_map, removed) ==
    {Processed("remove_definitions_cst", instruction.target_file :> original,
               extraction_map,
               SeqToSet(RemovalEntities(instruction, extraction_map)),
               StrategyEnd("none", "", <<>>, 0, <<"remove_definitions_cst">>,
                           NoPrompt))}

\* CASE 2 with entities: remove_definitions_cst(original, entities)
SurgicalRemoval(original, instruction, extraction_map, removed) ==
    {Processed("remove_definitions_cst",
               IF removed.raised THEN EmptyMap
               ELSE instruction.target_file :> removed.code,
               extraction_map,
               SeqToSet(RemovalEntities(instruction, extraction_map)),
               StrategyEnd(IF removed.raised THEN "Exception" ELSE "none",
                           IF removed.raised THEN "CST Error" ELSE "",
                           <<>>, 0, <<"remove_definitions_cst">>, NoPrompt))}

\* the dict returned for EXTRACT_AND_MODIFY
BothFiles(instruction, extraction_map, source_content, result_map) ==
    Processed("extract_and_modify",
              IF result_map.raised # "none" THEN EmptyMap
              ELSE Overwrite(instruction.target_file :> result_map.target_content,
                             instruction.source_file :> result_map.source_content),
              extraction_map, {},
              StrategyEnd(result_map.raised, result_map.why, <<>>, 1,
                          <<"extract_and_modify">>,
                          Prompt("extract", source_content)))

\* EXTRACT_AND_MODIFY: the source is read from the project root
ExtractAndModifyStep(instruction, extraction_map, disk, generator) ==
    IF instruction.source_file \notin DOMAIN disk
    THEN {Processed("extract_and_modify", EmptyMap, extraction_map, {},
                    StrategyEnd("FileNotFoundError", "source", <<>>, 0,
                                <<>>, NoPrompt))}
    ELSE {BothFiles(instruction, extraction_map, disk[instruction.source_file],
                    result_map) :
            result_map \in ExtractAndModify(Prompt("extract", disk[instruction.source_file]),
                                            generator.extract)}

\* FALLBACK TO LEGACY SYSTEM
Fallback(original, instruction, extraction_map, generator) ==
    IF instruction.action = "CREATE"
    THEN {OneFile("create", instruction.target_file, extraction_map, end) :
            end \in FullRewrite(original, generator)}
    ELSE IF LooksLikeDelete(instruction)
    THEN {OneFile("semantic_delete", instruction.target_file, extraction_map, end) :
            end \in SemanticDelete(original, generator)}
    ELSE IF LineCount(original) > LargeFile
    THEN {OneFile("patch_large_file", instruction.target_file, extraction_map, end) :
            end \in PatchLargeFile(original, generator)}
    ELSE {OneFile("full_rewrite", instruction.target_file, extraction_map, end) :
            end \in FullRewrite(original, generator)}

\* _process_change: the ways the step can end
ProcessChange(original, instruction, extraction_map, disk, generator) ==
    IF instruction.action = "CREATE" /\ instruction.source_file # ""
    THEN SurgicalCreation(instruction, extraction_map, disk, generator)
    ELSE IF /\ instruction.action = "MODIFY"
            /\ IsDelete(instruction.description)
            /\ RemovalEntities(instruction, extraction_map) # <<>>
    THEN SurgicalRemoval(original, instruction, extraction_map,
                         RemoveDefinitionsCst(original,
                             SeqToSet(RemovalEntities(instruction, extraction_map))))
    ELSE IF instruction.action = "EXTRACT_AND_MODIFY"
    THEN ExtractAndModifyStep(instruction, extraction_map, disk, generator)
    ELSE Fallback(original, instruction, extraction_map, generator)

\* _is_suspicious
IsSuspicious(original, proposed) ==
    IF Len(original) = 0 THEN FALSE
    ELSE IF 10 * Chars(proposed) < 3 * Chars(original) /\ Chars(original) > 500
    THEN TRUE
    ELSE HasKind(proposed, {"prose"})

(***************************************************************************)
(* Pipeline (Worker.create_diff_draft): bounds and input universes.        *)
(***************************************************************************)
MaxSteps == 2       \* steps of the plan

Change(action, target_file, source_file, description, detected_entities) ==
    [action |-> action, target_file |-> target_file, source_file |-> source_file,
     description |-> description, detected_entities |-> detected_entities]

D_update == <<"update", "logic">>
D_remove_function == <<"remove", "function">>
D_remove_import == <<"remove", "unused", "import">>
D_delete_file == <<"delete", "file">>

Changes ==
    {Change("CREATE", "t.py", "s.py", D_update, <<"foo", "zed">>),
     Change("CREATE", "t.py", "s.py", D_update, <<>>),
     Change("CREATE", "u.py", "s.py", D_update, <<"zed">>),
     Change("MODIFY", "s.py", "", D_remove_function, <<"foo">>),
     Change("MODIFY", "s.py", "", D_remove_function, <<>>),
     Change("MODIFY", "s.py", "", D_remove_import, <<"foo">>),
     Change("MODIFY", "b.py", "", D_remove_function, <<"foo">>),
     Change("MODIFY", "s.py", "", D_update, <<>>),
     Change("MODIFY", "big.py", "", D_update, <<>>),
     Change("MODIFY", "m.py", "", D_update, <<>>),
     Change("DELETE", "s.py", "", D_delete_file, <<>>),
     Change("EXTRACT_AND_MODIFY", "t.py", "s.py", D_update, <<"foo">>)}

\* the files of the project root
Disk ==
    [path \in {"s.py", "b.py", "m.py", "big.py"} |->
        IF path = "s.py" THEN T_c_foo \o T_bar
        ELSE IF path = "b.py" THEN T_broken
        ELSE IF path = "m.py" THEN <<Line(0, "stmts", LargeFile)>>
        ELSE <<Line(0, "stmts", LargeFile + 1)>>]

\* what the staging area may hold from a run before
Stages == {EmptyMap, "s.py" :> T_bar}

J_foo == <<Line(0, "json", <<"foo">>)>>
J_zed == <<Line(0, "json", <<"zed">>)>>

X_full ==
    <<Line(0, "target", "")>> \o T_foo \o <<Line(0, "separator", ""),
      Line(0, "source", "")>> \o T_bar \o <<Line(0, "end", "")>>
X_truncated ==
    <<Line(0, "target", "")>> \o T_foo \o <<Line(0, "separator", ""),
      Line(0, "source", "")>> \o T_broken
X_no_source == <<Line(0, "target", "")>> \o T_foo \o <<Line(0, "separator", "")>>

\* the answers the generator may give, by kind of prompt
Generator ==
    [code |-> {Said(G_valid), Said(G_import_valid), Said(G_import_broken),
               Said(G_broken), Said(G_prose), ProviderFailed},
     patch |-> {Said(<<Line(0, "block", "edit")>>), Said(<<Line(0, "block", "break")>>),
                Said(<<Line(0, "block", "nomatch")>>)},
     names |-> {Said(J_foo), Said(J_zed)},
     extract |-> {Said(X_full), Said(X_truncated), Said(X_no_source)}]

NoStats == [total |-> 0, drafted |-> 0, failed |-> 0, details |-> <<>>]

NoStep ==
    [called |-> FALSE, change |-> Change("", "", "", <<>>, <<>>), original |-> <<>>,
     raised |-> "none", why |-> "", files |-> EmptyMap, route |-> "",
     names |-> {}, calls |-> 0, engines |-> <<>>, prompt |-> NoPrompt,
     suspicious |-> {}, before |-> EmptyMap]

WorkerInit ==
    /\ w_plan \in SeqsUpTo(Changes, MaxSteps)
    /\ w_disk = Disk
    /\ w_stage \in Stages
    /\ w_working = EmptyMap
    /\ w_history = <<>>
    /\ w_map = EmptyMap
    /\ w_stats = [NoStats EXCEPT !.total = Len(w_plan)]
    /\ w_last = NoStep
    /\ w_phase = "run"

(***************************************************************************)
(* Pipeline (Worker.create_diff_draft).                                    *)
(***************************************************************************)
\* a base content read past the working cache
BaseContentUncached(target_rel) ==
    IF target_rel \in DOMAIN w_stage THEN w_stage[target_rel]
    ELSE IF target_rel \in DOMAIN w_disk THEN w_disk[target_rel]
    ELSE <<>>

\* 1. GET BASE CONTENT: memory, then stage, then disk, then ""
BaseContent(target_rel) ==
    IF target_rel \in DOMAIN w_working THEN w_working[target_rel]
    ELSE IF target_rel \in DOMAIN w_stage THEN w_stage[target_rel]
    ELSE IF target_rel \in DOMAIN w_disk THEN w_disk[target_rel]
    ELSE <<>>

\* the working cache after step 1: a staged version is loaded into it
Loaded(target_rel) ==
    IF target_rel \notin DOMAIN w_working /\ target_rel \in DOMAIN w_stage
    THEN Put(w_working, target_rel, w_stage[target_rel])
    ELSE w_working

\* the paths of files_to_update that _is_suspicious("", content) flags
Flagged(files_to_update) ==
    {path \in DOMAIN files_to_update : IsSuspicious(<<>>, files_to_update[path])}

\* the entry of a step in the task history
HistoryEntry(change) ==
    [action |-> change.action, file |-> change.target_file,
     desc |-> change.description]

\* a history that also logs the steps that failed
TaskHistoryOfAll(change, result) == Append(w_history, HistoryEntry(change))

\* 5. UPDATE TASK HISTORY: reached only when nothing raised before it
TaskHistory(change, result) ==
    IF result.raised = "none" THEN Append(w_history, HistoryEntry(change))
    ELSE w_history

\* steps 3 to 5 of the loop body, or its except clause
Record(change, original, loaded, result) ==
    /\ w_working' = IF result.raised = "none" THEN Overwrite(loaded, result.files)
                    ELSE loaded
    /\ w_stats' = IF result.raised = "none"
                  THEN [w_stats EXCEPT !.drafted = @ + 1,
                          !.details = Append(@, [file |-> change.target_file,
                                                 status |-> "staged"])]
                  ELSE [w_stats EXCEPT !.failed = @ + 1,
                          !.details = Append(@, [file |-> change.target_file,
                                                 status |-> "error"])]
    /\ w_history' = TaskHistory(change, result)
    /\ w_map' = result.map
    /\ w_last' = [called |-> TRUE, change |-> change, original |-> original,
                  raised |-> result.raised, why |-> result.why,
                  files |-> result.files, route |-> result.route,
                  names |-> result.names, calls |-> result.calls,
                  engines |-> result.engines, prompt |-> result.prompt,
                  suspicious |-> IF result.raised = "none"
                                 THEN Flagged(result.files) ELSE {},
                  before |-> w_working]

\* one turn of the loop of create_diff_draft: the next step of the plan
ProcessStep ==
    /\ w_phase = "run"
    /\ Len(w_stats.details) < Len(w_plan)
    /\ \E result \in ProcessChange(
                        BaseContent(w_plan[Len(w_stats.details) + 1].target_file),
                        w_plan[Len(w_stats.details) + 1], w_map, w_disk, Generator) :
            Record(w_plan[Len(w_stats.details) + 1],
                   BaseContent(w_plan[Len(w_stats.details) + 1].target_file),
                   Loaded(w_plan[Len(w_stats.details) + 1].target_file), result)
    /\ UNCHANGED <<w_plan, w_disk, w_stage, w_phase, notWorker>>

\* 6. FINAL WRITE: every file of the working cache is written to the stage
FinalWrite ==
    /\ w_phase = "run"
    /\ Len(w_stats.details) = Len(w_plan)
    /\ w_stage' = Overwrite(w_stage, w_working)
    /\ w_phase' = "written"
    /\ UNCHANGED <<w_plan, w_disk, w_working, w_history, w_map, w_stats, w_last,
                   notWorker>>

WorkerNext == ProcessStep \/ FinalWrite

(***************************************************************************)
(* inject_import_at_top (core/ast_patcher.py).  Every line of a source     *)
(* ends with a newline; new_import_code is its lines joined by newlines.   *)
(***************************************************************************)
\* text.strip().splitlines(): the lines without the blank ones at both ends
RECURSIVE StripLines(_)
StripLines(code) ==
    IF Len(code) = 0 THEN code
    ELSE IF code[1].kind = "blank" THEN StripLines(Tail(code))
    ELSE IF code[Len(code)].kind = "blank"
    THEN StripLines(SubSeq(code, 1, Len(code) - 1))
    ELSE StripText(code)

\* the lines where the nodes of tree.body start
BodyLines(source_code) ==
    {i \in 1..Len(source_code) :
        source_code[i].indent = 0 /\ source_code[i].kind \in Statement}

\* last_import_line after the loop over tree.body: string expressions are
\* skipped, and the loop stops at the first other node that follows an
\* import; 0 when tree.body holds no import
LastImportLine(source_code) ==
    LET imports == {i \in BodyLines(source_code) : source_code[i].kind = "import"}
        breakers == {i \in BodyLines(source_code) :
                        /\ imports # {}
                        /\ i > Lowest(imports)
                        /\ source_code[i].kind \notin {"import", "doc", "docopen"}}
    IN  IF imports = {} THEN 0
        ELSE Highest({i \in imports : breakers # {} => i < Lowest(breakers)})

\* the scan of the lines when there is no import: the index (from 0) of the
\* first line that is not blank and starts neither with "#" nor with three
\* quotes; 0 when there is none
FirstCodeIndex(lines) ==
    LET real == {i \in 1..Len(lines) :
                    /\ lines[i].kind \notin {"blank", "comment", "docopen", "docclose"}
                    /\ ~(lines[i].kind = "doc" /\ lines[i].name = "triple")}
    IN  IF real = {} THEN 0 ELSE Lowest(real) - 1

InsertLineIndex(source_code) ==
    IF LastImportLine(source_code) > 0 THEN LastImportLine(source_code)
    ELSE FirstCodeIndex(source_code)

\* "\n".join(final_lines): no newline after the last line, so a blank last
\* line is no line any more
JoinedText(final_lines) ==
    IF Len(final_lines) > 0 /\ final_lines[Len(final_lines)].kind = "blank"
    THEN SubSeq(final_lines, 1, Len(final_lines) - 1)
    ELSE final_lines

\* inject_import_at_top
InjectImportAtTop(source_code, new_import_code) ==
    IF StripLines(new_import_code) = <<>> THEN source_code
    ELSE IF ~AstParse(source_code) THEN new_import_code \o source_code
    ELSE JoinedText(SubSeq(source_code, 1, InsertLineIndex(source_code))
                    \o StripLines(new_import_code)
                    \o SubSeq(source_code, InsertLineIndex(source_code) + 1,
                              Len(source_code)))

(***************************************************************************)
(* Syntax-tree helpers: bounds and input universes.                        *)
(***************************************************************************)
MaxParts == 3       \* top-level parts of the source

Blank == Line(0, "blank", "")
Shebang == Line(0, "comment", "!")
K_doc_lines == <<Line(0, "docopen", 1), Line(0, "doctext", ""), Line(0, "docclose", "")>>
K_doc_triple == <<Line(0, "doc", "triple")>>
K_doc_single == <<Line(0, "doc", "single")>>

AstParts ==
    {<<Shebang>>, K_doc_lines, K_doc_triple, K_doc_single, <<Blank>>,
     <<Import>>, <<Line(0, "import", "re")>>, T_x, T_foo, T_Baz_foo, T_foo_bar,
     T_broken}

AstSources == {Concat(parts) : parts \in SeqsUpTo(AstParts, MaxParts)}

AstNames == {"foo", "bar", "Baz", "zed"}

NewImport == Line(0, "import", "new")
ImportCodes ==
    {<<>>, <<Blank>>, <<NewImport>>,
     <<Blank, Line(2, "import", "new"), Line(0, "import", "json"), Blank>>}

AstCall(op, name, names, new_import_code, raised, text) ==
    [op |-> op, name |-> name, names |-> names,
     new_import_code |-> new_import_code, raised |-> raised, text |-> text]

AstNotCalled == AstCall("none", "", {}, <<>>, FALSE, <<>>)

AstInit ==
    /\ a_source \in AstSources
    /\ a_out = AstNotCalled

\* one call of extract_function_source(a_source, func_name); the text <<>>
\* stands for None
ExtractSource ==
    /\ a_out.op = "none"
    /\ \E func_name \in AstNames :
        a_out' = AstCall("extract", func_name, {}, <<>>, FALSE,
                         ExtractFunctionSource(a_source, func_name))
    /\ UNCHANGED <<a_source, notAst>>

\* one call of delete_definitions(a_source, names)
DeleteNames ==
    /\ a_out.op = "none"
    /\ \E names \in SUBSET AstNames :
        a_out' = AstCall("delete", "", names, <<>>,
                         DeleteDefinitions(a_source, names).raised,
                         DeleteDefinitions(a_source, names).text)
    /\ UNCHANGED <<a_source, notAst>>

\* one call of inject_import_at_top(a_source, new_import_code)
InjectImport ==
    /\ a_out.op = "none"
    /\ \E new_import_code \in ImportCodes :
        a_out' = AstCall("inject", "", {}, new_import_code, FALSE,
                         InjectImportAtTop(a_source, new_import_code))
    /\ UNCHANGED <<a_source, notAst>>

AstNext == ExtractSource \/ DeleteNames \/ InjectImport

(***************************************************************************)
(* Commit of the staging area (Worker.commit_changes with                  *)
(* SafetyManager.create_backup).  A path is the sequence of its parts; the *)
(* clock counts the seconds that time.strftime("%H%M%S") tells apart.      *)
(***************************************************************************)
\* file_path.name
BaseName(path) == path[Len(path)]

\* the directory of the path exists under the project root
ParentExists(root, path) ==
    \/ Len(path) = 1
    \/ \E q \in DOMAIN root :
          SubSeq(q, 1, Len(q) - 1) = SubSeq(path, 1, Len(path) - 1)

Without(map, k) == [q \in DOMAIN map \ {k} |-> map[q]]

\* create_backup(file_path) without transaction id: nothing when the file
\* does not exist, else a copy named <name>.<HHMMSS>.bak; copied is FALSE
\* when shutil.copy2 raises, which is caught
CreateBackup(root, backups, file_path, clock, copied) ==
    IF file_path \notin DOMAIN root \/ ~copied THEN backups
    ELSE Put(backups, <<BaseName(file_path), clock>>, root[file_path])

(***************************************************************************)
(* Commit: bounds and input universes.                                     *)
(***************************************************************************)
MaxClock == 2       \* seconds that may pass during one commit

K_a_init == <<"a", "__init__.py">>
K_b_init == <<"b", "__init__.py">>
K_s == <<"s.py">>
K_new == <<"n.py">>
K_deep == <<"d", "n.py">>

Old(path) == <<"old">> \o path
New(path) == <<"new">> \o path

RootFiles == [path \in {K_a_init, K_b_init, K_s} |-> Old(path)]
StagedSets == SUBSET {K_a_init, K_b_init, K_s, K_new, K_deep}

CommitLog(phase, root, stage) == [phase |-> phase, root |-> root, stage |-> stage]

CommitInit ==
    /\ k_root = RootFiles
    /\ \E staged \in StagedSets : k_stage = [path \in staged |-> New(path)]
    /\ k_backups = EmptyMap
    /\ k_clock = 0
    /\ k_log = CommitLog("run", k_root, k_stage)

\* one turn of the loop of commit_changes, on any file rglob yields next:
\* backup of the destination, then os.replace(staged, dest), which raises
\* when the directory of dest does not exist
CommitFile ==
    /\ k_log.phase = "run"
    /\ \E staged \in DOMAIN k_stage, copied \in BOOLEAN :
        /\ k_backups' = CreateBackup(k_root, k_backups, staged, k_clock, copied)
        /\ IF ParentExists(k_root, staged)
           THEN /\ k_root' = Put(k_root, staged, k_stage[staged])
                /\ k_stage' = Without(k_stage, staged)
                /\ k_log' = k_log
           ELSE /\ k_log' = [k_log EXCEPT !.phase = "raised"]
                /\ UNCHANGED <<k_root, k_stage>>
    /\ UNCHANGED <<k_clock, notCommit>>

\* the loop is over: return True
CommitReturn ==
    /\ k_log.phase = "run"
    /\ k_stage = EmptyMap
    /\ k_log' = [k_log EXCEPT !.phase = "done"]
    /\ UNCHANGED <<k_root, k_stage, k_backups, k_clock, notCommit>>

\* a second passes while the commit runs
Tick ==
    /\ k_log.phase = "run"
    /\ k_clock < MaxClock
    /\ k_clock' = k_clock + 1
    /\ UNCHANGED <<k_root, k_stage, k_backups, k_log, notCommit>>

CommitNext == CommitFile \/ CommitReturn \/ Tick

(***************************************************************************)
(* Patch engine claims.                                                    *)
(***************************************************************************)
\* the SEARCH headers of the patch text as the caller wrote it
BlocksInPatch == Len(SplitSeq(p_patch, <<SEARCH, NL>>)) - 1

\* C7: the call raises if and only if the patch text holds at least one
\* block and no block was applied; a patch text without blocks returns the
\* original text; a call with an applied block returns without raising.
C7_RaisesIffNoBlockApplied ==
    p_out.called =>
        /\ p_out.raised <=> (BlocksInPatch >= 1 /\ p_out.applied_count = 0)
        /\ BlocksInPatch = 0 => p_out.text = p_code
        /\ p_out.applied_count >= 1 => ~p_out.raised

\* what each tier does on the text a block met, taken one by one
DeleteSucceeds(e) ==
    HasMarker(e.search) /\ Find(e.before, StripWS(RemoveMarker(e.search)), 0) # -1
ExactSucceeds(e) == Contains(e.before, e.search)
SoftSucceeds(e) == ApplySoftMatch(e.before, e.search, e.replace).ok

WellFormed == {k \in 1..Len(p_out.log) : p_out.log[k].tier # "skip"}

\* every block starts from the text the block before it produced
BlocksChain ==
    \A k \in 1..Len(p_out.log) :
        /\ p_out.log[k].before = IF k = 1 THEN p_code ELSE p_out.log[k - 1].after
        /\ p_out.log[k].tier \notin Applied => p_out.log[k].after = p_out.log[k].before
        /\ (k = Len(p_out.log) /\ ~p_out.raised) => p_out.text = p_out.log[k].after

\* C8 as stated: the first tier that succeeds among structural delete, exact
\* replace and soft match is the one applied, a block fails only when all
\* three fail on it, and the next block works on the text produced so far.
C8_FirstSucceedingTierApplied ==
    p_out.called =>
        /\ \A k \in WellFormed :
            LET e == p_out.log[k]
            IN  e.tier = IF DeleteSucceeds(e) THEN "delete"
                         ELSE IF ExactSucceeds(e) THEN "exact"
                         ELSE IF SoftSucceeds(e) THEN "soft"
                         ELSE "failed"
        /\ BlocksChain

\* C8 amended: a block that carries the elision marker is tried by
\* structural delete only and fails when its signature is not found; any
\* other block is tried by exact replace, then by soft match, and fails only
\* when both fail; the next block works on the text produced so far.
C8_TiersByBlockKind ==
    p_out.called =>
        /\ \A k \in WellFormed :
            LET e == p_out.log[k]
            IN  IF HasMarker(e.search)
                THEN e.tier = IF DeleteSucceeds(e) THEN "delete" ELSE "failed"
                ELSE /\ e.tier = IF ExactSucceeds(e) THEN "exact"
                                 ELSE IF SoftSucceeds(e) THEN "soft"
                                 ELSE "failed"
                     /\ e.tier = "exact" =>
                            e.after = ExactReplace(e.before, e.search, e.replace).text
                     /\ e.tier = "soft" =>
                            e.after = ApplySoftMatch(e.before, e.search, e.replace).text
        /\ BlocksChain

\* a block that exact replace cannot apply is applied by soft match to the
\* text that the structural delete of the block before it produced
C8_Witness ==
    /\ p_out.called
    /\ \E k \in 2..Len(p_out.log) :
        /\ p_out.log[k].tier = "soft"
        /\ ~ExactSucceeds(p_out.log[k])
        /\ p_out.log[k - 1].tier = "delete"
        /\ p_out.log[k].before # p_code

\* the lines of the text a structural delete met: the signature line, its
\* indentation and the sibling line that ends the block
SignatureLine(e) ==
    LET lines == SplitLines(e.before)
        hits == {i \in 1..Len(lines) :
                    Contains(lines[i], StripWS(RemoveMarker(e.search)))}
    IN  CHOOSE i \in hits : \A j \in hits : i <= j

SiblingLine(e) ==
    LET lines == SplitLines(e.before)
        i == SignatureLine(e)
        hits == {j \in (i + 1)..Len(lines) :
                    /\ Len(StripWS(lines[j])) > 0
                    /\ LeadingIndent(lines[j]) <= LeadingIndent(lines[i])}
    IN  IF hits = {} THEN Len(lines) + 1
        ELSE CHOOSE j \in hits : \A h \in hits : j <= h

\* C9: a structural delete replaces the signature line and the lines after
\* it up to the sibling line; the lines before the signature, the sibling
\* line and the lines after it stay the same separate lines.
C9_DeleteReplacesBlockLines ==
    p_out.called =>
        \A k \in 1..Len(p_out.log) :
            LET e == p_out.log[k]
                lines == SplitLines(e.before)
            IN  e.tier = "delete" =>
                    SplitLines(e.after) =
                        SubSeq(lines, 1, SignatureLine(e) - 1)
                        \o SplitLines(e.replace)
                        \o SubSeq(lines, SiblingLine(e), Len(lines))

\* the search fragment's lines after trimming, and the first contiguous run
\* of lines of the text a block met that equal them after trimming
TrimmedLines(s) == [k \in 1..Len(SplitLines(s)) |-> StripWS(SplitLines(s)[k])]

SoftRun(e) ==
    LET wanted == TrimmedLines(e.search)
        found == TrimmedLines(e.before)
        hits == {i \in 0..(Len(found) - Len(wanted)) :
                    SubSeq(found, i + 1, i + Len(wanted)) = wanted}
    IN  CHOOSE i \in hits : \A j \in hits : i <= j

\* C25: a soft line match yields exactly the lines before the first matching
\* run, then the replacement lines, then the lines after the run, in order,
\* with no line added, removed or altered outside the run.
C25_SoftMatchSplicesLines ==
    p_out.called =>
        \A k \in 1..Len(p_out.log) :
            LET e == p_out.log[k]
                lines == SplitLines(e.before)
            IN  e.tier = "soft" =>
                    SplitLines(e.after) =
                        SubSeq(lines, 1, SoftRun(e))
                        \o SplitLines(e.replace)
                        \o SubSeq(lines, SoftRun(e) + Len(TrimmedLines(e.search)) + 1,
                                  Len(lines))

(***************************************************************************)
(* Removal engine claims.                                                  *)
(***************************************************************************)
Definitions == {i \in 1..Len(c_source) : c_source[i].kind \in {"def", "class"}}

\* the last line of the definition that starts at line i
LastLine(i) ==
    LET after == {j \in (i + 1)..Len(c_source) :
                     c_source[j].indent <= c_source[i].indent}
    IN  IF after = {} THEN Len(c_source)
        ELSE (CHOOSE j \in after : \A h \in after : j <= h) - 1

\* the comment lines directly above line i
CommentsAbove(i) ==
    {j \in 1..(i - 1) :
        \A h \in j..(i - 1) : /\ c_source[h].kind = "comment"
                              /\ c_source[h].indent = c_source[i].indent}

\* line i starts the first statement of the file
FirstOfFile(i) ==
    \A h \in 1..(i - 1) : c_source[h].kind = "comment" /\ c_source[h].indent = 0

\* the lines that go with the definition at line i when it is removed
RemovedSpan(i) ==
    (i..LastLine(i)) \cup (IF FirstOfFile(i) THEN {} ELSE CommentsAbove(i))

Named == {i \in Definitions : c_source[i].name \in c_names}
RemovedLines == UNION {RemovedSpan(i) : i \in Named}

\* the definition at line i is found unchanged in the result
SpanUnchanged(i) == Contains(c_out.code, SubSeq(c_source, i, LastLine(i)))

Rejected(k) ==
    /\ CallLlm(l_out.outs[k]).raised = "none"
    /\ CleanLlmCode(CallLlm(l_out.outs[k]).text).raised = "none"
    /\ l_req.validate_syntax
    /\ ShouldValidate(CleanLlmCode(CallLlm(l_out.outs[k]).text).text, l_req.original_code)
    /\ ~AstParse(CleanLlmCode(CallLlm(l_out.outs[k]).text).text)

\* C18: the call ends after at most 3 generator calls; every attempt whose
\* output fails to parse is followed by the prompt extended with the parse
\* error; the third invalid output in a row raises; an error of the provider
\* on any attempt ends the call at that attempt with an error.
C18_RetryBounded ==
    l_out.called =>
        /\ Len(l_out.outs) \in 1..3
        /\ Len(l_out.sent) = Len(l_out.outs)
        /\ l_out.sent[1] = l_req.user_prompt
        /\ \A k \in 1..Len(l_out.outs) - 1 :
            /\ Rejected(k)
            /\ l_out.sent[k + 1] = [l_out.sent[k] EXCEPT !.errors = @ + 1]
        /\ (Len(l_out.outs) = 3 /\ Rejected(3)) =>
            (l_out.raised = "RuntimeError" /\ l_out.why = "attempts")
        /\ \A k \in 1..Len(l_out.outs) :
            l_out.outs[k].failed =>
                (k = Len(l_out.outs) /\ l_out.raised = "RuntimeError"
                 /\ l_out.why = "provider")
        /\ Len(l_out.outs) < 3 => ~Rejected(Len(l_out.outs))

\* two invalid outputs, each answered with the extended prompt, then an error
\* of the provider that ends the call
C18_Witness ==
    /\ l_out.called
    /\ Len(l_out.outs) = 3
    /\ Rejected(1) /\ Rejected(2)
    /\ l_out.sent[3].errors = 2
    /\ l_out.outs[3].failed
    /\ l_out.raised = "RuntimeError"

\* C19: whenever validate_syntax is true, the text the call returns parses.
C19_ReturnedTextParses ==
    (l_out.called /\ l_req.validate_syntax /\ l_out.raised = "none") =>
        AstParse(l_out.text)

(***************************************************************************)
(* EXTRACT_AND_MODIFY response claims.                                     *)
(***************************************************************************)
HasLine(kind) == \E i \in 1..Len(x_raw) : x_raw[i].kind = kind

\* the marker lines of the response, in the order they stand in
RECURSIVE MarkersOf(_)
MarkersOf(text) ==
    IF Len(text) = 0 THEN <<>>
    ELSE IF Head(text).kind \in {"target", "separator", "source", "end"}
    THEN <<Head(text).kind>> \o MarkersOf(Tail(text))
    ELSE MarkersOf(Tail(text))

\* the lines after the first line of the given kind
AfterFirst(kind) ==
    SubSeq(x_raw, FindKind(x_raw, kind, 1) + 1, Len(x_raw))

\* C12: a response that holds the TARGET marker, the separator and the
\* SOURCE marker, in this order, but no END marker is split, its source
\* section being all the text after the SOURCE marker, with a truncation
\* warning, and the step does not fail; a response that lacks the TARGET
\* marker, the separator or the SOURCE marker fails the step.
C12_TruncatedResponseAccepted ==
    x_out.called =>
        /\ MarkersOf(x_raw) = <<"target", "separator", "source">> =>
                /\ x_out.raised = "none"
                /\ x_out.truncated
                /\ x_out.source_content = AfterFirst("source")
        /\ (~HasLine("target") \/ ~HasLine("separator") \/ ~HasLine("source")) =>
                x_out.raised # "none"

(***************************************************************************)
(* Pipeline claims.                                                        *)
(***************************************************************************)
\* the step before last was handed to the removal engine, which failed on
\* the base content of the step
RemovalFailed ==
    /\ w_last.called
    /\ w_last.route = "remove_definitions_cst"
    /\ RemoveDefinitionsCst(w_last.original, w_last.names).raised

LastDetail == w_stats.details[Len(w_stats.details)]

\* C11: when the removal engine cannot parse the source, the failure is
\* raised and no text is returned in its place; no other engine and no
\* generator call is tried for the step, the step is recorded as failed, and
\* the content of the target file in the working cache is not replaced.
C11_RemovalFailurePropagates ==
    RemovalFailed =>
        /\ w_last.raised # "none"
        /\ w_last.files = EmptyMap
        /\ w_last.engines = <<"remove_definitions_cst">>
        /\ w_last.calls = 0
        /\ LastDetail = [file |-> w_last.change.target_file, status |-> "error"]
        /\ w_stats.failed >= 1
        /\ w_last.change.target_file \in DOMAIN w_working =>
            w_working[w_last.change.target_file] = w_last.original
        /\ w_last.change.target_file \in DOMAIN w_last.before =>
            w_working = w_last.before

\* the removal engine fails on a file that an earlier step of the run left
\* unparsable in the working cache, and the cache keeps that content
C11_Witness ==
    /\ RemovalFailed
    /\ w_last.change.target_file \in DOMAIN w_last.before
    /\ w_working[w_last.change.target_file] = T_broken
    /\ w_stats.failed = 1 /\ w_stats.drafted = 1

\* the last step was a surgical CREATE; what it read and what it declared
SurgicalStep == w_last.called /\ w_last.route = "surgical_create"
SourceRead == ReadOrEmpty(w_disk, w_last.change.source_file)
Declared == SeqToSet(w_last.change.detected_entities)

\* the declared entities that the source defines at top level
InSource ==
    {entity \in Declared :
        \E i \in 1..Len(SourceRead) :
            /\ SourceRead[i].indent = 0
            /\ SourceRead[i].kind \in {"def", "class"}
            /\ SourceRead[i].name = entity}

\* the lines of the top-level definition of the entity, as they stand in
\* the source
DefinitionLines(entity) ==
    LET i == CHOOSE k \in 1..Len(SourceRead) :
                /\ SourceRead[k].indent = 0
                /\ SourceRead[k].kind \in {"def", "class"}
                /\ SourceRead[k].name = entity
        rest == {j \in i + 1..Len(SourceRead) : SourceRead[j].indent = 0}
    IN  SubSeq(SourceRead, i,
               IF rest = {} THEN Len(SourceRead) ELSE Lowest(rest) - 1)

\* C13: surgical CREATE extracts every declared entity on its own: each
\* entity found in the source is passed as extracted context, each entity not
\* found is recorded as a failed extraction, and the generator is called all
\* the same; the whole source is the context if and only if no entity is
\* declared or every extraction fails.
C13_EntitiesExtractedIndependently ==
    SurgicalStep =>
        /\ w_last.calls >= 1
        /\ SeqToSet(w_last.prompt.context.failed_extractions) = Declared \ InSource
        /\ w_last.prompt.context.full_source <=> (Declared = {} \/ InSource = {})
        /\ w_last.prompt.context.full_source =>
            w_last.prompt.context.full_body = SourceRead
        /\ ~w_last.prompt.context.full_source =>
            \A entity \in InSource :
                Contains(w_last.prompt.context.full_body, DefinitionLines(entity))

\* one declared entity is found and one is not: the found one is the whole
\* context, the other one is a failed extraction, and the step is drafted
C13_Witness ==
    /\ SurgicalStep
    /\ w_last.raised = "none"
    /\ InSource = {"foo"} /\ Declared = {"foo", "zed"}
    /\ w_last.prompt.context.full_body = DefinitionLines("foo")
    /\ w_last.prompt.context.failed_extractions = <<"zed">>
    /\ w_stats.drafted = 1

\* q starts with p
IsPrefix(p, q) == Len(p) <= Len(q) /\ SubSeq(q, 1, Len(p)) = p

NoneTwice(q) == \A i, j \in 1..Len(q) : i # j => q[i] # q[j]

\* the names the definition enumerator finds in a text: those of its
\* function and class definitions, none when the text does not parse
Enumerated(text) ==
    IF ParseModule(text).ok
    THEN {text[i].name : i \in {j \in 1..Len(text) : text[j].kind \in {"def", "class"}}}
    ELSE {}

SymbolsOf(map, source) ==
    IF source \in DOMAIN map THEN SeqToSet(map[source].symbols) ELSE {}

\* what one step of the run does to the Extraction Map
MapStep ==
    /\ \A source \in DOMAIN w_map :
        /\ source \in DOMAIN w_map'
        /\ IsPrefix(w_map[source].moved_to, w_map'[source].moved_to)
        /\ IsPrefix(w_map[source].symbols, w_map'[source].symbols)
    /\ \A source \in DOMAIN w_map' :
        /\ NoneTwice(w_map'[source].moved_to)
        /\ NoneTwice(w_map'[source].symbols)
    /\ IF w_last'.route = "surgical_create" /\ w_last'.raised = "none"
          /\ w_stats'.drafted = w_stats.drafted + 1
       THEN /\ w_last'.change.source_file \in DOMAIN w_map'
            /\ w_last'.change.target_file
                   \in SeqToSet(w_map'[w_last'.change.source_file].moved_to)
            /\ SymbolsOf(w_map', w_last'.change.source_file)
                   = SymbolsOf(w_map, w_last'.change.source_file)
                     \cup Enumerated(w_last'.files[w_last'.change.target_file])
            /\ \A source \in DOMAIN w_map' \ {w_last'.change.source_file} :
                   source \in DOMAIN w_map /\ w_map'[source] = w_map[source]
       ELSE w_map' = w_map

\* C14: after every successful surgical CREATE from S to T the entry of S
\* lists T in moved_to and lists in symbols the definition names enumerated
\* in the generated output, not the declared entities; over the steps of a
\* run the map only grows, nothing recorded is removed or replaced, and no
\* target or symbol is listed twice.
C14_ExtractionMapGrows == [][MapStep]_vars

\* two surgical CREATE steps from the same source to two targets, whose
\* outputs define other names than the steps declare: both targets and the
\* names of both outputs are listed, in the order of the steps
C14_Witness ==
    /\ w_stats.drafted = 2
    /\ w_plan[1].detected_entities = <<"foo", "zed">>
    /\ w_plan[2].detected_entities = <<"zed">>
    /\ "s.py" \in DOMAIN w_map
    /\ w_map["s.py"] = [moved_to |-> <<"t.py", "u.py">>, symbols |-> <<"bar", "foo">>]

\* the wording of the description of the last step
Says(word) == \E i \in 1..Len(w_last.change.description) :
                 w_last.change.description[i] = word

NamesDefinitionKind == Says("function") \/ Says("class") \/ Says("method")

RemovalKeyword ==
    Says("remove") \/ Says("delete") \/ Says("drop") \/ Says("eliminate")
    \/ Says("cleanup")

\* removal intent: a removal keyword together with function, class or method
RemovalIntent == RemovalKeyword /\ NamesDefinitionKind

DeletionRoutes == {"remove_definitions_cst", "semantic_delete"}

\* C15: a MODIFY step goes to definition deletion only when its description
\* holds a removal keyword together with "function", "class" or "method"; a
\* MODIFY that speaks of removing something else is not sent to deletion
\* even when it declares entities.
C15_DeletionOnlyOnRemovalIntent ==
    (w_last.called /\ w_last.change.action = "MODIFY"
     /\ w_last.route \in DeletionRoutes) => RemovalIntent

\* the names the removal rule is to use on the last step: the declared
\* entities, else the symbols the map records for the target file
NamesToRemove ==
    IF w_last.change.detected_entities # <<>>
    THEN SeqToSet(w_last.change.detected_entities)
    ELSE SymbolsOf(w_map, w_last.change.target_file)

\* C16: on a MODIFY whose description mentions removal, the names handed to
\* the removal engine are the declared entities of the step when there are
\* any, otherwise exactly the symbols the Extraction Map records for the
\* file; when both are empty the removal engine is not called by this rule.
C16_NamesHandedToRemoval ==
    (w_last.called /\ w_last.change.action = "MODIFY"
     /\ (Says("remove") \/ Says("delete") \/ Says("cleanup"))) =>
        IF NamesToRemove # {}
        THEN /\ w_last.route = "remove_definitions_cst"
             /\ w_last.names = NamesToRemove
        ELSE /\ w_last.route # "remove_definitions_cst"
             /\ w_last.names = {}

\* a step without declared entities removes from s.py the definition that
\* an earlier surgical CREATE of the run recorded in the map; the comment at
\* the head of the file stays
C16_Witness ==
    /\ w_last.called /\ w_last.raised = "none"
    /\ w_last.route = "remove_definitions_cst"
    /\ w_last.change.detected_entities = <<>>
    /\ w_last.names = {"foo"}
    /\ w_map["s.py"].symbols = <<"foo">>
    /\ w_last.original = T_c_foo \o T_bar
    /\ w_working["s.py"] = T_c_bar

\* the last step was left to the fallback rule of the dispatcher
OtherStep ==
    /\ w_last.called
    /\ w_last.change.action \in {"MODIFY", "DELETE"}
    /\ w_last.route # "remove_definitions_cst"

DeletionWording ==
    Says("delete") \/ Says("drop") \/ Says("eliminate")
    \/ (Says("remove") /\ NamesDefinitionKind)

C20_SuspiciousOutputFlagged ==
    (w_last.called /\ w_last.raised = "none") =>
        \A path \in DOMAIN w_last.files :
            /\ w_working[path] = w_last.files[path]
            /\ (\/ \E i \in 1..Len(w_last.files[path]) :
                        w_last.files[path][i].kind = "prose"
                \/ /\ path = w_last.change.target_file
                   /\ Chars(w_last.original) > 500
                   /\ 10 * Chars(w_last.files[path]) < 3 * Chars(w_last.original))
               => path \in w_last.suspicious

\* the answer the call received last, and that answer without its fence
\* lines
LastAnswer == l_out.outs[Len(l_out.outs)]

Unfenced(text) ==
    LET inner == Tail(text)
    IN  StripText(IF StartsWithKind(<<inner[Len(inner)]>>, {"fence"})
                  THEN SubSeq(inner, 1, Len(inner) - 1)
                  ELSE inner)

\* C28: cleaning the generator's answer never raises: an answer that begins
\* with a fence line comes back without its leading and trailing fence lines,
\* any other answer comes back stripped, so a fenced answer does not make the
\* call fail.
C28_FencedAnswerCleaned ==
    (l_out.called /\ Len(l_out.outs) > 0 /\ ~LastAnswer.failed
        /\ ~StartsWithKind(LastAnswer.text, {"sign"})) =>
        /\ l_out.raised # "AttributeError"
        /\ ~l_req.validate_syntax =>
            l_out.text = IF StartsWithKind(LastAnswer.text, {"fence"})
                         THEN Unfenced(LastAnswer.text)
                         ELSE StripText(LastAnswer.text)

\* the steps processed so far and, among the first k of them, the entries of
\* those that succeeded, in plan order
StepsDone == Len(w_stats.details)

RECURSIVE SucceededUpTo(_)
SucceededUpTo(k) ==
    IF k = 0 THEN <<>>
    ELSE IF w_stats.details[k].status = "staged"
    THEN Append(SucceededUpTo(k - 1), HistoryEntry(w_plan[k]))
    ELSE SucceededUpTo(k - 1)

StepsInOrder ==
    /\ StepsDone <= Len(w_plan)
    /\ \A k \in 1..StepsDone : w_stats.details[k].file = w_plan[k].target_file
    /\ w_history = SucceededUpTo(StepsDone)
    /\ w_stats.drafted = Len(w_history)
    /\ w_stats.drafted + w_stats.failed = StepsDone
    /\ w_stats.total = Len(w_plan)
    /\ w_phase = "written" => StepsDone = w_stats.total

\* C22: the steps of the plan are processed in order, one at a time, and a
\* failed step does not stop the following ones; the task history is at every
\* point the sequence of the steps that succeeded so far, in plan order, and
\* is only appended to; at the end drafted = length of the history and
\* drafted + failed = total.
C22_HistoryIsSucceededSteps ==
    /\ []StepsInOrder
    /\ [][/\ IsPrefix(w_history, w_history')
          /\ Len(w_stats.details') <= StepsDone + 1
          /\ IsPrefix(w_stats.details, w_stats.details')]_vars

\* a run that ended after a failed step followed by a step that succeeded
C22_Witness ==
    /\ w_phase = "written"
    /\ StepsDone = 2
    /\ w_stats.details[1].status = "error"
    /\ w_stats.details[2].status = "staged"
    /\ w_history = <<HistoryEntry(w_plan[2])>>
    /\ w_stats.failed = 1

\* the step the pipeline has just processed received, as base content, the
\* first of: cache entry, staged copy, file on disk, empty text (the stage is
\* the one of the previous run until the final write)
BaseFromHierarchy ==
    (w_last.called /\ w_phase = "run") =>
        LET target == w_last.change.target_file
        IN  w_last.original =
                IF target \in DOMAIN w_last.before THEN w_last.before[target]
                ELSE IF target \in DOMAIN w_stage THEN w_stage[target]
                ELSE IF target \in DOMAIN w_disk THEN w_disk[target]
                ELSE <<>>

\* after the final write the stage holds, for every file of the cache, the
\* last content produced
StageHoldsCache ==
    w_phase = "written" =>
        \A path \in DOMAIN w_working :
            path \in DOMAIN w_stage /\ w_stage[path] = w_working[path]

\* a step whose target the step before it wrote receives what that step
\* wrote, and the stage changes only in the final write
ReceivesEarlierOutput ==
    /\ (w_last.called /\ w_last.raised = "none"
            /\ Len(w_stats.details') = StepsDone + 1
            /\ w_last'.change.target_file \in DOMAIN w_last.files) =>
           w_last'.original = w_last.files[w_last'.change.target_file]
    /\ w_stage' # w_stage =>
           /\ w_phase = "run" /\ w_phase' = "written"
           /\ \A path \in DOMAIN w_stage \ DOMAIN w_working :
                 w_stage'[path] = w_stage[path]

\* C26: a step receives for its target the working-cache entry if there is
\* one, else the staged copy of a previous run, else the file on disk, else
\* the empty text; so a step on a file an earlier successful step wrote
\* (the source of an EXTRACT_AND_MODIFY included) receives that output, and
\* every file of the cache is written to the stage once, at the end, with the
\* last content produced.
C26_BaseContentHierarchy ==
    /\ []BaseFromHierarchy
    /\ []StageHoldsCache
    /\ [][ReceivesEarlierOutput]_vars

\* a step on the source file that an EXTRACT_AND_MODIFY step rewrote received
\* the rewritten text, changed it again, and the stage holds the last text
C26_Witness ==
    /\ w_phase = "written"
    /\ Len(w_plan) = 2
    /\ w_plan[1].action = "EXTRACT_AND_MODIFY"
    /\ w_last.change.target_file = w_plan[1].source_file
    /\ w_last.raised = "none"
    /\ w_last.change.target_file \in DOMAIN w_last.before
    /\ w_last.original = w_last.before[w_last.change.target_file]
    /\ w_last.original # w_disk[w_last.change.target_file]
    /\ w_working[w_last.change.target_file] # w_last.original
    /\ w_stage[w_last.change.target_file] = w_working[w_last.change.target_file]

\* a step that read a source file, and what the run had produced for that
\* file before the step
SourceStep ==
    /\ w_last.called
    /\ w_last.route \in {"surgical_create", "extract_and_modify"}
    /\ w_last.prompt # NoPrompt
    /\ w_last.change.source_file \in DOMAIN w_last.before

ProducedSource == w_last.before[w_last.change.source_file]

\* C27: a step that reads a source file (surgical CREATE, EXTRACT_AND_MODIFY)
\* reads what the earlier steps of the run produced for it: the generator is
\* given the changed content, not the original on disk.
C27_SourceReadFromRun ==
    SourceStep =>
        IF w_last.route = "surgical_create"
        THEN w_last.prompt.context =
                SurgicalContext(ProducedSource, w_last.change.detected_entities)
        ELSE w_last.prompt.context = ProducedSource

\* the pipeline processes a step, and that step fails
StepFails ==
    /\ Len(w_stats.details') = StepsDone + 1
    /\ w_last'.raised # "none"

\* C29 as stated: a step that fails leaves the run state as it was: the
\* working cache has the same keys and contents, the task history and the
\* extraction map are unchanged.
C29_FailedStepLeavesState ==
    [][StepFails =>
          /\ w_working' = w_working
          /\ w_history' = w_history
          /\ w_map' = w_map]_vars

\* C29 amended: a step that fails leaves the task history and the extraction
\* map unchanged; no entry of the working cache is changed or removed, and
\* the only entry it can gain is the staged copy of the step's target, loaded
\* when the target was not yet in the cache.
C29_FailedStepKeepsStateButLoadsStage ==
    [][StepFails =>
          /\ w_history' = w_history
          /\ w_map' = w_map
          /\ \A path \in DOMAIN w_working :
                path \in DOMAIN w_working' /\ w_working'[path] = w_working[path]
          /\ \A path \in DOMAIN w_working' \ DOMAIN w_working :
                /\ path = w_last'.change.target_file
                /\ path \in DOMAIN w_stage
                /\ w_working'[path] = w_stage[path]
          /\ (w_last'.change.target_file \in DOMAIN w_stage) =>
                w_last'.change.target_file \in DOMAIN w_working']_vars

\* after a step that filled the extraction map and the cache, a step fails
\* and the cache has gained the staged copy of its target
C29_Witness ==
    /\ w_last.called
    /\ w_last.raised # "none"
    /\ Len(w_history) = 1
    /\ w_map # EmptyMap
    /\ w_last.before # EmptyMap
    /\ DOMAIN w_working = DOMAIN w_last.before \cup {w_last.change.target_file}
    /\ w_last.change.target_file \notin DOMAIN w_last.before
    /\ w_working[w_last.change.target_file] = w_stage[w_last.change.target_file]

\* C23: extract_function_source returns the source of the named definition
\* whenever a definition of that name exists in a source that parses, at any
\* depth, and None (the empty text) only when none exists or the source
\* does not parse.
DefinedAnywhere(source, name) ==
    \E i \in 1..Len(source) :
        source[i].kind \in Compound /\ source[i].name = name

C23_NestedDefinitionExtracted ==
    a_out.op = "extract" =>
        (a_out.text = <<>> <=>
            (~AstParse(a_source) \/ ~DefinedAnywhere(a_source, a_out.name)))

\* C24: for a source that parses, inject_import_at_top puts the new import
\* right after the last import statement of the file or, without any
\* import, right before the first line that is neither blank, nor a
\* comment, nor part of the leading docstring; every line of the source is
\* kept in order, and a blank import leaves the source unchanged.
ImportLinesOf(source) == {i \in 1..Len(source) : source[i].kind = "import"}

\* the lines of the docstring the module starts with
LeadingDocstring(source) ==
    LET j == FirstStatement(source, 1, 0)
    IN  IF j > Len(source) \/ source[j].kind \notin {"doc", "docopen"} THEN {}
        ELSE j..StatementEnd(source, j)

CodeLinesOf(source) ==
    {i \in 1..Len(source) :
        /\ source[i].kind \notin {"blank", "comment"}
        /\ i \notin LeadingDocstring(source)}

InsertedAt(source, k, new_lines) ==
    SubSeq(source, 1, k) \o new_lines \o SubSeq(source, k + 1, Len(source))

C24_ImportAfterLastImport ==
    (a_out.op = "inject" /\ AstParse(a_source)) =>
        IF StripLines(a_out.new_import_code) = <<>> THEN a_out.text = a_source
        ELSE /\ ImportLinesOf(a_source) # {} =>
                    JoinedText(a_out.text) =
                        JoinedText(InsertedAt(a_source, Highest(ImportLinesOf(a_source)),
                                              StripLines(a_out.new_import_code)))
             /\ (ImportLinesOf(a_source) = {} /\ CodeLinesOf(a_source) # {}) =>
                    JoinedText(a_out.text) =
                        JoinedText(InsertedAt(a_source, Lowest(CodeLinesOf(a_source)) - 1,
                                              StripLines(a_out.new_import_code)))

\* C30: delete_definitions, given a source that parses and names that
\* collect_definitions enumerates in it, returns a text that parses again:
\* no class or function is left without a body.
C30_DeletionKeepsSourceValid ==
    (/\ a_out.op = "delete"
     /\ AstParse(a_source)
     /\ a_out.names \subseteq CollectDefinitions(a_source).names) =>
        (~a_out.raised /\ AstParse(a_out.text))

\* C21: when commit_changes has returned, every staged file whose
\* destination existed before the commit has a backup that holds the
\* destination's content of before the commit, and the destination holds
\* the staged content.
C21_BackupOfEveryOverwrittenFile ==
    k_log.phase = "done" =>
        \A path \in DOMAIN k_log.stage \cap DOMAIN k_log.root :
            /\ \E backup \in DOMAIN k_backups : k_backups[backup] = k_log.root[path]
            /\ k_root[path] = k_log.stage[path]

(***************************************************************************)
(* Specifications: one per component, the other components idle.           *)
(***************************************************************************)
GraphIdle ==
    /\ db = [files |-> <<>>, imports |-> <<>>, fault |-> "unavailable"]
    /\ graph_nodes = {}
    /\ graph_edges = {}
    /\ is_built = FALSE
    /\ module_to_path = EmptyMap
    /\ g_last = [op |-> "init", failed |-> FALSE, arg |-> None, result |-> NoResult]

ResolverIdle ==
    /\ r_rows = <<>>
    /\ r_fragment = <<>>
    /\ r_result = [called |-> FALSE, ret |-> NoMatch, best |-> NoMatch]

PatcherIdle ==
    /\ p_code = <<>>
    /\ p_patch = <<>>
    /\ p_out = NotCalled

CstIdle ==
    /\ c_source = <<>>
    /\ c_names = {}
    /\ c_out = CstNotCalled

RetryIdle ==
    /\ l_req = [user_prompt |-> Prompt("code", <<>>), original_code |-> <<>>,
                validate_syntax |-> FALSE]
    /\ l_out = RetryNotCalled

ExtractIdle ==
    /\ x_raw = <<>>
    /\ x_out = ExtractNotCalled

WorkerIdle ==
    /\ w_plan = <<>>
    /\ w_disk = EmptyMap
    /\ w_stage = EmptyMap
    /\ w_working = EmptyMap
    /\ w_history = <<>>
    /\ w_map = EmptyMap
    /\ w_stats = NoStats
    /\ w_last = NoStep
    /\ w_phase = "written"

AstIdle ==
    /\ a_source = <<>>
    /\ a_out = AstNotCalled

CommitIdle ==
    /\ k_root = EmptyMap
    /\ k_stage = EmptyMap
    /\ k_backups = EmptyMap
    /\ k_clock = 0
    /\ k_log = CommitLog("done", EmptyMap, EmptyMap)

HelpersIdle == AstIdle /\ CommitIdle

WorkerPartsIdle == RetryIdle /\ ExtractIdle /\ WorkerIdle /\ HelpersIdle

InitGraph == GraphInit /\ ResolverIdle /\ PatcherIdle /\ CstIdle /\ WorkerPartsIdle
SpecGraph == InitGraph /\ [][GraphNext]_vars

InitResolver == ResolverInit /\ GraphIdle /\ PatcherIdle /\ CstIdle /\ WorkerPartsIdle
SpecResolver == InitResolver /\ [][ResolverNext]_vars

InitPatch == PatcherInit /\ GraphIdle /\ ResolverIdle /\ CstIdle /\ WorkerPartsIdle
SpecPatch == InitPatch /\ [][PatcherNext]_vars

InitCst == CstInit /\ GraphIdle /\ ResolverIdle /\ PatcherIdle /\ WorkerPartsIdle
SpecCst == InitCst /\ [][CstNext]_vars

EnginesIdle == GraphIdle /\ ResolverIdle /\ PatcherIdle /\ CstIdle

InitRetry == RetryInit /\ EnginesIdle /\ ExtractIdle /\ WorkerIdle /\ HelpersIdle
SpecRetry == InitRetry /\ [][RetryNext]_vars

InitExtract == ExtractInit /\ EnginesIdle /\ RetryIdle /\ WorkerIdle /\ HelpersIdle
SpecExtract == InitExtract /\ [][ExtractNext]_vars

InitWorker == WorkerInit /\ EnginesIdle /\ RetryIdle /\ ExtractIdle /\ HelpersIdle
SpecWorker == InitWorker /\ [][WorkerNext]_vars

InitAst ==
    AstInit /\ EnginesIdle /\ RetryIdle /\ ExtractIdle /\ WorkerIdle /\ CommitIdle
SpecAst == InitAst /\ [][AstNext]_vars

InitCommit ==
    CommitInit /\ EnginesIdle /\ RetryIdle /\ ExtractIdle /\ WorkerIdle /\ AstIdle
SpecCommit == InitCommit /\ [][CommitNext]_vars

====
